---- MODULE Spec2Model ----
(***************************************************************************)
(* State-machine model of the SSO service (Nafanyan/sso).                  *)
(*                                                                         *)
(* The service is a gRPC front (serverAPI) over the Auth engine, which     *)
(* makes its decisions from three SQLite tables (users, apps, user_app)    *)
(* and from HS256 tokens signed with the secret of an app.  Requests run   *)
(* concurrently; the engine holds no state of its own, so a request is a   *)
(* sequence of store calls and each store call is one atomic step; pure    *)
(* computation is folded into the neighbouring store call.                 *)
(*                                                                         *)
(* Time is counted in ticks, TicksPerSec ticks to the second: time.Now()   *)
(* has sub-second resolution while the exp claim of a token is in whole    *)
(* seconds (time.Time.Unix()).                                             *)
(***************************************************************************)
EXTENDS Integers, FiniteSets, Sequences, TLC

\* ------------------------------------------------------------------ bounds
NumProcs == 2      \* concurrent request slots
MaxTime == 3       \* the clock runs over 0..MaxTime ticks
TicksPerSec == 2   \* clock resolution
TokenTTL == 2      \* a.tokenTTL, in ticks
MaxIssued == 1     \* tokens a client keeps track of

Procs == 1..NumProcs

\* ------------------------------------------------------------- input sets
Emails == {"a@x", "b@x"}
Passwords == {"password1", "password2"}
ShortPassword == "pw"   \* fewer than the 8 characters Register asks for
Password72 ==           \* 72 characters, the most bcrypt hashes
  "pppppppppppppppppppppppppppppppppppppppppppppppppppppppppppppppppppppppp"
LongPassword ==         \* 73 characters: Password72 and one more
  "ppppppppppppppppppppppppppppppppppppppppppppppppppppppppppppppppppppppppp"
AppCodes == {"web", "test", "nope"}

\* The apps table is provisioned by the administrator and read-only for the
\* service: code is the public code, name a display name.  Nothing in the
\* service makes the secrets of two apps differ, so the provisionings are one
\* with a secret per app and one where the two apps share a secret.
Secrets == {"k-web", "k-test"}
AppsTables ==
  { { [id |-> 1, code |-> "web", name |-> "Web", secret |-> "k-web"],
      [id |-> 2, code |-> "test", name |-> "Test", secret |-> k] }
    : k \in Secrets }

VARIABLE apps   \* table apps: rows [id, code, name, secret]

None == "<none>"

\* ------------------------------------------------------------------ errors
\* An error value is the set of sentinels errors.Is finds in its chain;
\* the empty set is the nil error.
NoErr == {}
Is(err, target) == target \in err

\* ---------------------------------------------------------------- password
\* bcrypt keys its cipher with the first 72 bytes of the password and reads
\* no byte after them (passwords here hold no zero byte).
BcryptKey(password) ==
  IF Len(password) > 72 THEN SubSeq(password, 1, 72) ELSE password

\* bcrypt.GenerateFromPassword refuses a password of more than 72 bytes; the
\* digest is not the password.
GenerateFromPassword(password) ==
  IF Len(password) > 72
  THEN [hash |-> None, err |-> {"bcrypt.ErrPasswordTooLong"}]
  ELSE [hash |-> <<"bcrypt", BcryptKey(password)>>, err |-> NoErr]

\* bcrypt.CompareHashAndPassword hashes the password again, with no test of
\* its length, and compares: a digest verifies every password with the key
\* it was made from.
CompareHashAndPassword(hash, password) == hash = <<"bcrypt", BcryptKey(password)>>

\* ------------------------------------------------------------------- store
\* Prepared statements: the table written and the number of placeholders.
userInsertStmt == [table |-> "users", numInput |-> 2]
userAppInsertStmt == [table |-> "user_app", numInput |-> 3]

RECURSIVE MaxId(_)
MaxId(rows) ==
  IF rows = {} THEN 0
  ELSE LET r == CHOOSE x \in rows : TRUE
           m == MaxId(rows \ {r})
       IN IF r.id > m THEN r.id ELSE m

\* database/sql Stmt.Exec on an INSERT statement with the given arguments:
\* the argument list is checked against the statement's placeholders before
\* anything reaches SQLite; then the table's UNIQUE constraint decides.
\* users has UNIQUE(email), user_app has UNIQUE(user_id, app_id).
StmtExec(stmt, args, us, rows) ==
  IF Len(args) # stmt.numInput
  THEN [users |-> us, userApps |-> rows, id |-> 0, err |-> {"sql.ErrArguments"}]
  ELSE IF stmt.table = "users"
  THEN IF \E u \in us : u.email = args[1]
       THEN [users |-> us, userApps |-> rows, id |-> 0,
             err |-> {"sqlite3.ErrConstraintUnique"}]
       ELSE [users |-> us \cup {[id |-> MaxId(us) + 1, email |-> args[1],
                                 pass_hash |-> args[2]]},
             userApps |-> rows, id |-> MaxId(us) + 1, err |-> NoErr]
  ELSE IF \E r \in rows : r.user_id = args[1] /\ r.app_id = args[2]
       THEN [users |-> us, userApps |-> rows, id |-> 0,
             err |-> {"sqlite3.ErrConstraintUnique"}]
       ELSE [users |-> us,
             userApps |-> rows \cup {[id |-> MaxId(rows) + 1, user_id |-> args[1],
                                      app_id |-> args[2], is_enabled |-> args[3]]},
             id |-> MaxId(rows) + 1, err |-> NoErr]

\* A variant of SaveUser on a users table without UNIQUE(email): the row is
\* always inserted.
SaveUserNoUnique(us, rows, email, passHash) ==
  [users |-> us \cup {[id |-> MaxId(us) + 1, email |-> email, pass_hash |-> passHash]},
   userApps |-> rows, id |-> MaxId(us) + 1, err |-> NoErr]

\* A variant of SaveUser that reports the conflict and stores the new digest
\* in the row that is there.
SaveUserReplacing(us, rows, email, passHash) ==
  LET r == StmtExec(userInsertStmt, <<email, passHash>>, us, rows)
  IN IF Is(r.err, "sqlite3.ErrConstraintUnique")
     THEN [r EXCEPT !.err = {"storage.ErrUserExists"},
                    !.users = {IF u.email = email
                               THEN [u EXCEPT !.pass_hash = passHash] ELSE u : u \in us}]
     ELSE r

\* Storage.SaveUser
SaveUser(us, rows, email, passHash) ==
  LET r == StmtExec(userInsertStmt, <<email, passHash>>, us, rows)
  IN IF Is(r.err, "sqlite3.ErrConstraintUnique")
     THEN [r EXCEPT !.err = {"storage.ErrUserExists"}]
     ELSE r

NoUser == [id |-> 0, email |-> "", pass_hash |-> None]

\* Storage.User
User(us, email) ==
  IF \E u \in us : u.email = email
  THEN [user |-> CHOOSE u \in us : u.email = email, err |-> NoErr]
  ELSE [user |-> NoUser, err |-> {"storage.ErrUserNotFound"}]

NoApp == [ID |-> 0, Code |-> "", Secret |-> ""]

\* Storage.App: SELECT id, name, secret ... WHERE code = ?, scanned into
\* app.ID, app.Code, app.Secret.
App(appCode) ==
  IF \E a \in apps : a.code = appCode
  THEN LET a == CHOOSE a \in apps : a.code = appCode
       IN [app |-> [ID |-> a.id, Code |-> a.name, Secret |-> a.secret], err |-> NoErr]
  ELSE [app |-> NoApp, err |-> {"storage.ErrAppNotFound"}]

NoUserApp == [UserID |-> 0, AppID |-> 0, IsEnabled |-> FALSE]

\* Storage.UserApp
UserApp(rows, userID, appID) ==
  IF \E r \in rows : r.user_id = userID /\ r.app_id = appID
  THEN LET r == CHOOSE r \in rows : r.user_id = userID /\ r.app_id = appID
       IN [userApp |-> [UserID |-> r.user_id, AppID |-> r.app_id,
                        IsEnabled |-> r.is_enabled],
           err |-> NoErr]
  ELSE [userApp |-> NoUserApp, err |-> {"storage.ErrUserAppNotFound"}]

\* A variant of SaveUserApp on a user_app table without UNIQUE(user_id, app_id):
\* the row is always inserted.
SaveUserAppNoUnique(us, rows, userID, appID, isEnabled) ==
  [users |-> us,
   userApps |-> rows \cup {[id |-> MaxId(rows) + 1, user_id |-> userID,
                            app_id |-> appID, is_enabled |-> isEnabled]},
   id |-> MaxId(rows) + 1, err |-> NoErr]

\* Storage.SaveUserApp: runs s.userInsertStmt.Exec(ctx, userID, appID,
\* isEnabled), that is the users statement with four arguments.
SaveUserApp(us, rows, userID, appID, isEnabled) ==
  LET r == StmtExec(userInsertStmt, <<"ctx", userID, appID, isEnabled>>, us, rows)
  IN IF Is(r.err, "sqlite3.ErrConstraintUnique")
     THEN [r EXCEPT !.err = {"storage.ErrUserAppExists"}]
     ELSE r

\* A variant of UpdateUserApp that deletes the row it is to disable.
UpdateUserAppDeleting(rows, userID, appID, isEnabled) ==
  LET hit == {r \in rows : r.user_id = userID /\ r.app_id = appID}
  IN IF hit = {}
     THEN [userApps |-> rows, err |-> {"storage.ErrUserAppNotFound"}]
     ELSE IF isEnabled
     THEN [userApps |-> (rows \ hit) \cup {[r EXCEPT !.is_enabled = TRUE] : r \in hit},
           err |-> NoErr]
     ELSE [userApps |-> rows \ hit, err |-> NoErr]

\* A variant of UpdateUserApp that enables the row whatever flag it is given.
UpdateUserAppEnabling(rows, userID, appID, isEnabled) ==
  LET hit == {r \in rows : r.user_id = userID /\ r.app_id = appID}
  IN IF hit = {}
     THEN [userApps |-> rows, err |-> {"storage.ErrUserAppNotFound"}]
     ELSE [userApps |-> (rows \ hit) \cup {[r EXCEPT !.is_enabled = TRUE] : r \in hit},
           err |-> NoErr]

\* A variant of UpdateUserApp that reports the update of a row it leaves as
\* it was.
UpdateUserAppKeepFlag(rows, userID, appID, isEnabled) ==
  LET hit == {r \in rows : r.user_id = userID /\ r.app_id = appID}
  IN IF hit = {}
     THEN [userApps |-> rows, err |-> {"storage.ErrUserAppNotFound"}]
     ELSE [userApps |-> rows, err |-> NoErr]

\* A variant of UpdateUserApp whose WHERE clause names the user only.
UpdateUserAppAllApps(rows, userID, appID, isEnabled) ==
  LET hit == {r \in rows : r.user_id = userID /\ r.app_id = appID}
      all == {r \in rows : r.user_id = userID}
  IN IF hit = {}
     THEN [userApps |-> rows, err |-> {"storage.ErrUserAppNotFound"}]
     ELSE [userApps |-> (rows \ all) \cup {[r EXCEPT !.is_enabled = isEnabled] : r \in all},
           err |-> NoErr]

\* Storage.UpdateUserApp: UPDATE user_app SET is_enabled = ? WHERE user_id = ?
\* AND app_id = ?; no row affected is ErrUserAppNotFound.
UpdateUserApp(rows, userID, appID, isEnabled) ==
  LET hit == {r \in rows : r.user_id = userID /\ r.app_id = appID}
  IN IF hit = {}
     THEN [userApps |-> rows, err |-> {"storage.ErrUserAppNotFound"}]
     ELSE [userApps |-> (rows \ hit) \cup {[r EXCEPT !.is_enabled = isEnabled] : r \in hit},
           err |-> NoErr]

\* --------------------------------------------------------------------- jwt
\* A token is what its three segments decode to: the header's alg, the
\* claims, and the key its signature was made with.  A claim that is absent
\* is None (NoExp for the number).  Garbage is a string that is no token.
NoExp == 0 - 1
Garbage ==
  [alg |-> "garbage", uid |-> 0, email |-> None, exp |-> NoExp,
   app_code |-> None, key |-> None]

\* The empty string in place of a token.
EmptyToken ==
  [alg |-> "empty", uid |-> 0, email |-> None, exp |-> NoExp,
   app_code |-> None, key |-> None]

\* jwt.NewToken
NewToken(user, app, duration, now) ==
  [alg |-> "HS256", uid |-> user.id, email |-> user.email,
   exp |-> (now + duration) \div TicksPerSec,
   app_code |-> app.Code, key |-> app.Secret]

\* The algorithms of *jwt.SigningMethodHMAC, the type the key function of
\* jwt.ValidateToken asks for.
SigningMethodHMAC == {"HS256", "HS384", "HS512"}

\* The instant of an exp claim: time.Unix(exp, 0), in ticks.
ExpTime(exp) == exp * TicksPerSec

\* A variant of JwtParse that takes any HMAC signature, whatever the key.
JwtParseAnyKey(token, secretApp, now) ==
  IF token.alg \notin SigningMethodHMAC
  THEN {"jwt.ErrTokenInvalid", "lib.ErrTokenMalformed"}
  ELSE IF token.exp # NoExp /\ ~(now < ExpTime(token.exp))
  THEN {"jwt.ErrTokenInvalid", "lib.ErrTokenInvalidClaims", "lib.ErrTokenExpired"}
  ELSE NoErr

\* jwt.ValidateToken, lines 35-48: golang-jwt/v5 Parse with the key function
\* of the code.  The library checks the segments, calls the key function,
\* verifies the signature and then validates the registered claims: a token
\* with an exp claim is valid only while now is before exp.  Every failure is
\* wrapped in ErrTokenInvalid.
JwtParse(token, secretApp, now) ==
  IF token.alg \in {"garbage", "empty"}
  THEN {"jwt.ErrTokenInvalid", "lib.ErrTokenMalformed"}
  ELSE IF token.alg \notin SigningMethodHMAC
  THEN {"jwt.ErrTokenInvalid", "lib.ErrTokenUnverifiable"}
  ELSE IF token.key # secretApp
  THEN {"jwt.ErrTokenInvalid", "lib.ErrTokenSignatureInvalid"}
  ELSE IF token.exp # NoExp /\ ~(now < ExpTime(token.exp))
  THEN {"jwt.ErrTokenInvalid", "lib.ErrTokenInvalidClaims", "lib.ErrTokenExpired"}
  ELSE NoErr

\* jwt.ValidateToken, lines 50-70: the claims the code reads itself, with its
\* own reading of the clock.
JwtClaims(token, now) ==
  IF token.email = None
  THEN [email |-> "", err |-> {"jwt.ErrTokenInvalid"}]
  ELSE IF token.exp = NoExp
  THEN [email |-> "", err |-> {"jwt.ErrTokenInvalid"}]
  ELSE IF now > ExpTime(token.exp)
  THEN [email |-> "", err |-> {"jwt.ErrTokenExpired"}]
  ELSE [email |-> token.email, err |-> NoErr]

\* jwt.ValidateToken as a whole; tParse and tCheck are its two readings of
\* time.Now() (tParse <= tCheck).
JwtValidateToken(token, secretApp, tParse, tCheck) ==
  IF JwtParse(token, secretApp, tParse) # NoErr
  THEN [email |-> "", err |-> JwtParse(token, secretApp, tParse)]
  ELSE JwtClaims(token, tCheck)

\* A variant of getUser that passes the store's not-found on as it is.
getUserPlain(us, email) == User(us, email)

\* ------------------------------------------------------- engine: lookups
\* A variant of getUserOf that answers every error of the store with
\* ErrInvalidCredentials.
getUserOfAnyError(r) ==
  IF r.err # NoErr
  THEN [user |-> NoUser, err |-> {"auth.ErrInvalidCredentials"}]
  ELSE r

\* getUser on the answer r of Storage.User: not-found becomes
\* ErrInvalidCredentials, any other error is passed on wrapped.
getUserOf(r) ==
  IF r.err # NoErr /\ Is(r.err, "storage.ErrUserNotFound")
  THEN [user |-> NoUser, err |-> {"auth.ErrInvalidCredentials"}]
  ELSE r

\* getUser: not-found becomes ErrInvalidCredentials.
getUser(us, email) == getUserOf(User(us, email))

\* getApp on the answer r of Storage.App: not-found becomes
\* auth.ErrAppNotFound, any other error is passed on wrapped.
getAppOf(r) ==
  IF r.err # NoErr /\ Is(r.err, "storage.ErrAppNotFound")
  THEN [app |-> NoApp, err |-> {"auth.ErrAppNotFound"}]
  ELSE r

\* getApp: not-found becomes auth.ErrAppNotFound.
getApp(appCode) == getAppOf(App(appCode))

\* A variant of getUserApp that tests the store's error against
\* storage.ErrUserAppNotFound.
getUserAppNotEnabled(rows, userID, appID) ==
  LET r == UserApp(rows, userID, appID)
  IN IF r.err # NoErr /\ Is(r.err, "storage.ErrUserAppNotFound")
     THEN [userApp |-> NoUserApp, err |-> {"auth.ErrUserAppNotEnabled"}]
     ELSE r

\* getUserApp on the answer r of Storage.UserApp.
getUserAppOf(r) ==
  IF r.err # NoErr /\ Is(r.err, "storage.ErrAppNotFound")
  THEN [userApp |-> NoUserApp, err |-> {"auth.ErrUserAppNotEnabled"}]
  ELSE r

\* getUserApp: the store's error is tested against storage.ErrAppNotFound
\* and becomes ErrUserAppNotEnabled on a match; any other error is passed
\* on wrapped.
getUserApp(rows, userID, appID) == getUserAppOf(UserApp(rows, userID, appID))

\* saveUserApp
saveUserApp(us, rows, userID, appID, isEnabled) ==
  SaveUserApp(us, rows, userID, appID, isEnabled)

\* A variant of isAccessAllowed that is content with any row, whatever its flag.
isAccessAllowedAnyRow(rows, userID, appID) == getUserApp(rows, userID, appID).err

\* isAccessAllowed
isAccessAllowed(rows, userID, appID) ==
  LET r == getUserApp(rows, userID, appID)
  IN IF r.err # NoErr THEN r.err
     ELSE IF ~r.userApp.IsEnabled THEN {"auth.ErrUserAppNotEnabled"}
     ELSE NoErr

\* Auth.ValidateToken as a function of the store, the token, the app code
\* and the clock: getApp, jwt.ValidateToken, getUser, isAccessAllowed.
ValidateToken(us, rows, token, appCode, t) ==
  LET a == getApp(appCode)
      c == JwtValidateToken(token, a.app.Secret, t, t)
      u == getUser(us, c.email)
  IN IF a.err # NoErr THEN [email |-> "", err |-> a.err]
     ELSE IF c.err # NoErr THEN [email |-> "", err |-> c.err]
     ELSE IF u.err # NoErr THEN [email |-> "", err |-> u.err]
     ELSE IF isAccessAllowed(rows, u.user.id, a.app.ID) # NoErr
     THEN [email |-> "", err |-> isAccessAllowed(rows, u.user.id, a.app.ID)]
     ELSE [email |-> c.email, err |-> NoErr]

\* ------------------------------------------------------- gRPC responses
\* What the handler of serverAPI answers for the engine's result.
OK(val) == [code |-> "OK", msg |-> "", val |-> val]
Status(code, msg) == [code |-> code, msg |-> msg, val |-> None]

\* serverAPI.Login
LoginResponse(token, err) ==
  IF err # NoErr
  THEN IF Is(err, "serverAPI.EmailRequired")
       THEN Status("InvalidArgument", "email is required")
       ELSE IF Is(err, "serverAPI.PasswordRequired")
       THEN Status("InvalidArgument", "password is required")
       ELSE IF Is(err, "serverAPI.AppCodeRequired")
       THEN Status("InvalidArgument", "app_code is required")
       ELSE IF Is(err, "auth.ErrInvalidCredentials")
       THEN Status("InvalidArgument", "invalid email or password")
       ELSE IF Is(err, "auth.ErrUserAppNotEnabled")
       THEN Status("Unauthenticated", "Access denied")
       ELSE Status("Internal", "failed to login")
  ELSE OK(token)

\* serverAPI.Logout
LogoutResponse(isSuccess, err) ==
  IF err # NoErr
  THEN IF Is(err, "serverAPI.EmailRequired")
       THEN Status("InvalidArgument", "email is required")
       ELSE IF Is(err, "serverAPI.AppCodeRequired")
       THEN Status("InvalidArgument", "app_code is required")
       ELSE Status("Internal", "failed to register user")
  ELSE OK(isSuccess)

\* serverAPI.Register
RegisterResponse(uid, err) ==
  IF err # NoErr
  THEN IF Is(err, "serverAPI.EmailRequired")
       THEN Status("InvalidArgument", "email is required")
       ELSE IF Is(err, "serverAPI.PasswordRequired")
       THEN Status("InvalidArgument", "password is required")
       ELSE IF Is(err, "serverAPI.InvalidEmail")
       THEN Status("InvalidArgument", "invalid email format")
       ELSE IF Is(err, "serverAPI.PasswordTooShort")
       THEN Status("InvalidArgument", "password must be at least 8 characters")
       ELSE IF Is(err, "storage.ErrUserExists")
       THEN Status("AlreadyExists", "user already exists")
       ELSE Status("Internal", "failed to register user")
  ELSE OK(uid)

\* serverAPI.Validate
ValidateResponse(email, err) ==
  IF err # NoErr
  THEN IF Is(err, "serverAPI.TokenRequired")
       THEN Status("InvalidArgument", "Token is required")
       ELSE IF Is(err, "serverAPI.AppCodeRequired")
       THEN Status("InvalidArgument", "app_code is required")
       ELSE IF Is(err, "jwt.ErrTokenExpired")
       THEN Status("Unauthenticated", "Token is expired")
       ELSE IF Is(err, "auth.ErrUserAppNotEnabled")
       THEN Status("Unauthenticated", "Access denied")
       ELSE Status("Unauthenticated", "Token is invalid")
  ELSE OK(email)

\* serverAPI.AllowAccess / GrantAccess / RevokeAccess: a request the handler
\* has turned down is answered InvalidArgument; the error of the engine is
\* not looked at.
AccessResponse(appCode, err) ==
  IF Is(err, "serverAPI.EmailRequired")
  THEN Status("InvalidArgument", "email is required")
  ELSE IF Is(err, "serverAPI.AppCodeRequired")
  THEN Status("InvalidArgument", "app_code is required")
  ELSE OK(appCode)

\* ------------------------------------------------------------------- state
VARIABLES
  users,      \* table users: rows [id, email, pass_hash]
  userApps,   \* table user_app: rows [id, user_id, app_id, is_enabled]
  now,        \* the clock, in ticks
  rq,         \* rq[p]: the request in slot p: handler position, arguments, result;
              \*   after: history, the call began after a Logout of its pair (or
              \*          of its token) succeeded, no grant since
              \*   first: history, the pair had no row when the call began
              \*   window: history, windowStart of the email when Incr counted
              \*          the request
              \*   rowAtReturn: history, the row of the pair at the moment Login
              \*          returned its token
              \*   regranted: history, the token of a Validate was issued before
              \*          a Logout of its pair and a grant has succeeded since,
              \*          with no Logout or revoke after it
              \*   firstToken: history, Login had returned no token for the
              \*          pair before this one
  issued,     \* history: tokens Login has returned (those the client kept)
  revoked,    \* history: <<token, appCode>> issued before a Logout of its pair,
              \* <<token, appCode, "AccessControl">> issued before a revoke
              \*          that succeeded, no grant for the pair since
              \* <<token, appCode, "Granted">> once a grant for the pair has
              \*          succeeded after that Logout
  loggedOut,  \* history: <<email, appCode>> with a Logout that succeeded and no
              \*          grant since
  redis,      \* redis[email]: the key rate:login:email:<email>: its counter n
              \*          (0: no key) and the instant ttl at which it expires
  windowStart, \* history: windowStart[email] is the instant of the last Incr of
              \*          the key that returned 1
  rateLimitBackend \* the backend the interceptor was built with: "redis", or
              \*          "nil" when no Redis address is configured

vars ==
  <<apps, users, userApps, now, rq, issued, revoked, loggedOut, redis, windowStart,
    rateLimitBackend>>

\* The state of the throttle.
tvars == <<redis, windowStart, rateLimitBackend>>

NoTTL == 0 - 1
NoKey == [n |-> 0, ttl |-> NoTTL]

Idle ==
  [pc |-> "idle", op |-> None, email |-> None, password |-> None,
   appCode |-> None, isEnabled |-> FALSE, token |-> Garbage, uid |-> 0,
   after |-> FALSE, afterRevoke |-> FALSE, first |-> FALSE, attempts |-> 0, window |-> NoTTL,
   fault |-> None, rowAtReturn |-> "", firstToken |-> FALSE, regranted |-> FALSE,
   val |-> None, err |-> NoErr]

\* The user the service is provisioned with, and the rows of user_app an
\* administrator may have written for that user before the service starts.
FirstUser == [id |-> 1, email |-> "a@x", pass_hash |-> GenerateFromPassword("password1").hash]

RowChoices(app) ==
  { {} } \cup { {[id |-> app.id, user_id |-> 1, app_id |-> app.id, is_enabled |-> e]}
                : e \in BOOLEAN }

\* Tokens a run of the service before this one has handed out for the first
\* user: issued at some instant in the TokenTTL before the start.
Outstanding ==
  { NewToken(FirstUser, App(a.code).app, TokenTTL, t)
      : a \in apps, t \in (0 - TokenTTL)..0 }

\* Strings a client can make up without a secret of the service.
Forged ==
  { Garbage,
    [alg |-> "HS256", uid |-> 1, email |-> "a@x", exp |-> MaxTime,
     app_code |-> "Web", key |-> "k-evil"],
    [alg |-> "HS384", uid |-> 1, email |-> "a@x", exp |-> MaxTime,
     app_code |-> "Web", key |-> "k-evil"],
    [alg |-> "none", uid |-> 1, email |-> "a@x", exp |-> MaxTime,
     app_code |-> "Web", key |-> None] }

TokenInputs == issued \cup Outstanding \cup Forged

Init ==
  /\ apps \in AppsTables
  /\ users = {FirstUser}
  /\ \E w \in RowChoices(CHOOSE a \in apps : a.code = "web"),
        t \in RowChoices(CHOOSE a \in apps : a.code = "test") :
        userApps = w \cup t
  /\ now = 0
  /\ rq = [p \in Procs |-> Idle]
  /\ issued = {}
  /\ revoked = {}
  /\ loggedOut = {}
  /\ redis = [e \in Emails |-> NoKey]
  /\ windowStart = [e \in Emails |-> 0]
  /\ rateLimitBackend = "nil"

\* ----------------------------------------------------------------- helpers
\* The rows of user_app for the user with this email and the app with this code.
RowsOf(email, appCode) ==
  {r \in userApps : /\ \E u \in users : u.email = email /\ u.id = r.user_id
                    /\ \E a \in apps : a.code = appCode /\ a.id = r.app_id}

Registered(email) == \E u \in users : u.email = email
AppExists(appCode) == \E a \in apps : a.code = appCode

\* email and password are credentials that the password check of Login
\* accepts.
CorrectCredentials(email, password) ==
  \E u \in users : u.email = email /\ CompareHashAndPassword(u.pass_hash, password)

\* The password the user with this email registered with: a digest is made
\* only from a password of at most 72 bytes, which is its key.  The service
\* cannot compute it; it is here to state properties.
RegisteredPassword(email) == (CHOOSE u \in users : u.email = email).pass_hash[2]

Finish(p, val, err) ==
  rq' = [rq EXCEPT ![p] = [@ EXCEPT !.pc = "done", !.val = val, !.err = err]]

Goto(p, pc) == rq' = [rq EXCEPT ![p].pc = pc]

AppOf(p) == App(rq[p].appCode).app

\* The response the client of slot p gets.
Response(p) ==
  CASE rq[p].op = "Register" -> RegisterResponse(rq[p].val, rq[p].err)
    [] rq[p].op = "Login" -> LoginResponse(rq[p].val, rq[p].err)
    [] rq[p].op = "Logout" -> LogoutResponse(rq[p].val, rq[p].err)
    [] rq[p].op = "Validate" -> ValidateResponse(rq[p].val, rq[p].err)
    [] rq[p].op = "AccessControl" -> AccessResponse(rq[p].val, rq[p].err)

\* ------------------------------------------------------------- the clock
Tick ==
  /\ now < MaxTime
  /\ now' = now + 1
  /\ UNCHANGED <<users, userApps, rq, issued, revoked, loggedOut>>

\* ------------------------------------------------------- requests arrive
\* serverAPI.Register turns a request down before it calls the engine: the
\* refusal is recorded as an error of serverAPI.
RegisterArgs(email, password) ==
  IF email = "" THEN {"serverAPI.EmailRequired"}
  ELSE IF password = "" THEN {"serverAPI.PasswordRequired"}
  ELSE IF Len(email) > 254 \/ Len(email) < 3 THEN {"serverAPI.InvalidEmail"}
  ELSE IF Len(password) < 8 THEN {"serverAPI.PasswordTooShort"}
  ELSE NoErr

StartRegister(p, email, password) ==
  /\ rq[p].pc = "idle"
  /\ rq' = [rq EXCEPT ![p] =
              IF RegisterArgs(email, password) # NoErr
              THEN [Idle EXCEPT !.pc = "done", !.op = "Register",
                                !.email = email, !.password = password,
                                !.val = 0, !.err = RegisterArgs(email, password)]
              ELSE [Idle EXCEPT !.pc = "register", !.op = "Register",
                                !.email = email, !.password = password]]
  /\ UNCHANGED <<users, userApps, now, issued, revoked, loggedOut>>

StartLogin(p, email, password, appCode) ==
  /\ rq[p].pc = "idle"
  /\ rq' = [rq EXCEPT ![p] = [Idle EXCEPT !.pc = "login_user", !.op = "Login",
                                          !.email = email, !.password = password,
                                          !.appCode = appCode,
                                          !.after = (<<email, appCode>> \in loggedOut),
                                          !.first = (RowsOf(email, appCode) = {})]]
  /\ UNCHANGED <<users, userApps, now, issued, revoked, loggedOut>>

\* serverAPI.Logout turns a request down before it calls the engine: the
\* refusal is recorded as an error of serverAPI.
LogoutArgs(email, appCode) ==
  IF email = "" THEN {"serverAPI.EmailRequired"}
  ELSE IF appCode = "" THEN {"serverAPI.AppCodeRequired"}
  ELSE NoErr

\* The same for serverAPI.AllowAccess, GrantAccess and RevokeAccess.
AccessArgs(email, appCode) ==
  IF email = "" THEN {"serverAPI.EmailRequired"}
  ELSE IF appCode = "" THEN {"serverAPI.AppCodeRequired"}
  ELSE NoErr

\* The same for serverAPI.Validate.
ValidateArgs(token, appCode) ==
  IF token = EmptyToken THEN {"serverAPI.TokenRequired"}
  ELSE IF appCode = "" THEN {"serverAPI.AppCodeRequired"}
  ELSE NoErr

StartLogout(p, email, appCode) ==
  /\ rq[p].pc = "idle"
  /\ rq' = [rq EXCEPT ![p] =
              IF LogoutArgs(email, appCode) # NoErr
              THEN [Idle EXCEPT !.pc = "done", !.op = "Logout",
                                !.email = email, !.appCode = appCode,
                                !.val = FALSE, !.err = LogoutArgs(email, appCode)]
              ELSE [Idle EXCEPT !.pc = "logout_user", !.op = "Logout",
                                !.email = email, !.appCode = appCode,
                                !.first = (RowsOf(email, appCode) = {})]]
  /\ UNCHANGED <<users, userApps, now, issued, revoked, loggedOut>>

StartValidate(p, token, appCode) ==
  /\ rq[p].pc = "idle"
  /\ rq' = [rq EXCEPT ![p] =
              IF ValidateArgs(token, appCode) # NoErr
              THEN [Idle EXCEPT !.pc = "done", !.op = "Validate",
                                !.token = token, !.appCode = appCode,
                                !.err = ValidateArgs(token, appCode)]
              ELSE [Idle EXCEPT !.pc = "validate_parse", !.op = "Validate",
                                !.token = token, !.appCode = appCode,
                                !.after = (<<token, appCode>> \in revoked),
                                !.afterRevoke =
                                  (<<token, appCode, "AccessControl">> \in revoked),
                                !.regranted =
                                  /\ <<token, appCode, "Granted">> \in revoked
                                  /\ <<token, appCode>> \notin revoked
                                  /\ <<token, appCode, "AccessControl">>
                                       \notin revoked]]
  /\ UNCHANGED <<users, userApps, now, issued, revoked, loggedOut>>

StartAccessControl(p, email, appCode, isEnabled) ==
  /\ rq[p].pc = "idle"
  /\ rq' = [rq EXCEPT ![p] =
              IF AccessArgs(email, appCode) # NoErr
              THEN [Idle EXCEPT !.pc = "done", !.op = "AccessControl",
                                !.email = email, !.appCode = appCode,
                                !.isEnabled = isEnabled,
                                !.val = "", !.err = AccessArgs(email, appCode)]
              ELSE [Idle EXCEPT !.pc = "access_user", !.op = "AccessControl",
                                !.email = email, !.appCode = appCode,
                                !.isEnabled = isEnabled,
                                !.first = (RowsOf(email, appCode) = {})]]
  /\ UNCHANGED <<users, userApps, now, issued, revoked, loggedOut>>

\* The client has read the response; the slot is free again.
Return(p) ==
  /\ rq[p].pc = "done"
  /\ rq' = [rq EXCEPT ![p] = Idle]
  /\ UNCHANGED <<users, userApps, now, issued, revoked, loggedOut>>

\* A variant of Register that also enables the new user for every app.
RegisterGranting(p) ==
  /\ rq[p].pc = "register"
  /\ LET g == GenerateFromPassword(rq[p].password)
         r == SaveUser(users, userApps, rq[p].email, g.hash)
     IN IF g.err # NoErr
        THEN /\ users' = users
             /\ userApps' = userApps
             /\ Finish(p, 0, g.err)
        ELSE /\ users' = r.users
             /\ userApps' = IF r.err # NoErr THEN userApps
                            ELSE userApps \cup
                                 {[id |-> MaxId(userApps) + a.id, user_id |-> r.id,
                                   app_id |-> a.id, is_enabled |-> TRUE] :
                                    a \in apps}
             /\ Finish(p, r.id, r.err)
  /\ UNCHANGED <<now, issued, revoked, loggedOut>>

\* ------------------------------------------------- Auth.RegisterNewUser
\* bcrypt.GenerateFromPassword, then SaveUser; a password bcrypt refuses ends
\* the call before the store is reached.
Register(p) ==
  /\ rq[p].pc = "register"
  /\ LET g == GenerateFromPassword(rq[p].password)
         r == SaveUser(users, userApps, rq[p].email, g.hash)
     IN IF g.err # NoErr
        THEN /\ users' = users
             /\ userApps' = userApps
             /\ Finish(p, 0, g.err)
        ELSE /\ users' = r.users
             /\ userApps' = r.userApps
             /\ Finish(p, r.id, r.err)
  /\ UNCHANGED <<now, issued, revoked, loggedOut>>

\* ------------------------------------------------------------ Auth.Login
\* serverAPI.Login turns a request down before it calls the engine: the
\* refusal is recorded as an error of serverAPI.
LoginArgs(email, password, appCode) ==
  IF email = "" THEN {"serverAPI.EmailRequired"}
  ELSE IF password = "" THEN {"serverAPI.PasswordRequired"}
  ELSE IF appCode = "" THEN {"serverAPI.AppCodeRequired"}
  ELSE NoErr

\* The handler's check of the arguments, then getUser and the password check.
LoginUser(p) ==
  /\ rq[p].pc = "login_user"
  /\ LET u == getUser(users, rq[p].email)
         args == LoginArgs(rq[p].email, rq[p].password, rq[p].appCode)
     IN IF args # NoErr
        THEN Finish(p, None, args)
        ELSE IF u.err # NoErr
        THEN Finish(p, None, u.err)
        ELSE IF ~CompareHashAndPassword(u.user.pass_hash, rq[p].password)
        THEN Finish(p, None, {"auth.ErrInvalidCredentials"})
        ELSE rq' = [rq EXCEPT ![p].pc = "login_app", ![p].uid = u.user.id]
  /\ UNCHANGED <<users, userApps, now, issued, revoked, loggedOut>>

\* getApp
LoginApp(p) ==
  /\ rq[p].pc = "login_app"
  /\ LET a == getApp(rq[p].appCode)
     IN IF a.err # NoErr
        THEN Finish(p, None, a.err)
        ELSE Goto(p, "login_userapp")
  /\ UNCHANGED <<users, userApps, now, issued, revoked, loggedOut>>

\* getUserApp: a row that is found is not looked at; only not-found leads
\* to the insert.
LoginUserApp(p) ==
  /\ rq[p].pc = "login_userapp"
  /\ LET r == getUserApp(userApps, rq[p].uid, AppOf(p).ID)
     IN IF r.err # NoErr /\ Is(r.err, "storage.ErrUserAppNotFound")
        THEN Goto(p, "login_save")
        ELSE IF r.err # NoErr
        THEN Finish(p, None, r.err)
        ELSE Goto(p, "login_token")
  /\ UNCHANGED <<users, userApps, now, issued, revoked, loggedOut>>

\* saveUserApp with isEnabled = true; ErrUserAppExists is absorbed.
LoginSave(p) ==
  /\ rq[p].pc = "login_save"
  /\ LET r == saveUserApp(users, userApps, rq[p].uid, AppOf(p).ID, TRUE)
     IN /\ users' = r.users
        /\ userApps' = r.userApps
        /\ IF r.err # NoErr /\ ~Is(r.err, "storage.ErrUserAppExists")
           THEN Finish(p, None, r.err)
           ELSE Goto(p, "login_token")
  /\ UNCHANGED <<now, issued, revoked, loggedOut>>

\* jwt.NewToken and the return; the client may keep the token.
LoginToken(p) ==
  /\ rq[p].pc = "login_token"
  /\ LET tok == NewToken([id |-> rq[p].uid, email |-> rq[p].email], AppOf(p),
                         TokenTTL, now)
     IN /\ rq' = [rq EXCEPT ![p] =
                  [@ EXCEPT !.pc = "done", !.val = tok, !.err = NoErr,
                            !.rowAtReturn =
                              IF RowsOf(rq[p].email, rq[p].appCode) = {} THEN "absent"
                              ELSE IF \E r \in RowsOf(rq[p].email, rq[p].appCode) :
                                        ~r.is_enabled
                              THEN "disabled" ELSE "enabled",
                            !.firstToken =
                              ~\E t \in issued : /\ t.email = rq[p].email
                                                 /\ t.app_code = AppOf(p).Code]]
        /\ \/ issued' = issued
           \/ /\ Cardinality(issued \cup {tok}) <= MaxIssued
              /\ issued' = issued \cup {tok}
  /\ UNCHANGED <<users, userApps, now, revoked, loggedOut>>

\* ----------------------------------------------------------- Auth.Logout
LogoutUser(p) ==
  /\ rq[p].pc = "logout_user"
  /\ LET u == getUser(users, rq[p].email)
     IN IF u.err # NoErr
        THEN Finish(p, FALSE, u.err)
        ELSE rq' = [rq EXCEPT ![p].pc = "logout_app", ![p].uid = u.user.id]
  /\ UNCHANGED <<users, userApps, now, issued, revoked, loggedOut>>

\* getApp
LogoutApp(p) ==
  /\ rq[p].pc = "logout_app"
  /\ LET a == getApp(rq[p].appCode)
     IN IF a.err # NoErr
        THEN Finish(p, FALSE, a.err)
        ELSE Goto(p, "logout_userapp")
  /\ UNCHANGED <<users, userApps, now, issued, revoked, loggedOut>>

LogoutUserApp(p) ==
  /\ rq[p].pc = "logout_userapp"
  /\ LET r == getUserApp(userApps, rq[p].uid, AppOf(p).ID)
     IN IF r.err # NoErr
        THEN Finish(p, FALSE, r.err)
        ELSE Goto(p, "logout_update")
  /\ UNCHANGED <<users, userApps, now, issued, revoked, loggedOut>>

\* UpdateUserApp(userApp.UserID, userApp.AppID, false)
LogoutUpdate(p) ==
  /\ rq[p].pc = "logout_update"
  /\ LET r == UpdateUserApp(userApps, rq[p].uid, AppOf(p).ID, FALSE)
     IN /\ userApps' = r.userApps
        /\ IF r.err # NoErr
           THEN /\ Finish(p, FALSE, r.err)
                /\ UNCHANGED <<revoked, loggedOut>>
           ELSE /\ Finish(p, TRUE, NoErr)
                /\ loggedOut' = loggedOut \cup {<<rq[p].email, rq[p].appCode>>}
                /\ revoked' = revoked \cup
                     { <<t, rq[p].appCode>> : t \in
                         {t \in issued : t.email = rq[p].email
                                         /\ t.app_code = AppOf(p).Code} }
  /\ UNCHANGED <<users, now, issued>>

\* ---------------------------------------------------- Auth.ValidateToken
\* getApp and the library's part of jwt.ValidateToken.
ValidateParse(p) ==
  /\ rq[p].pc = "validate_parse"
  /\ LET a == getApp(rq[p].appCode)
     IN IF a.err # NoErr
        THEN Finish(p, None, a.err)
        ELSE IF JwtParse(rq[p].token, a.app.Secret, now) # NoErr
        THEN Finish(p, None, JwtParse(rq[p].token, a.app.Secret, now))
        ELSE Goto(p, "validate_user")
  /\ UNCHANGED <<users, userApps, now, issued, revoked, loggedOut>>

\* The code's own reading of the claims, then getUser by the email claim.
ValidateUser(p) ==
  /\ rq[p].pc = "validate_user"
  /\ LET c == JwtClaims(rq[p].token, now)
         u == getUser(users, c.email)
     IN IF c.err # NoErr
        THEN Finish(p, None, c.err)
        ELSE IF u.err # NoErr
        THEN Finish(p, None, u.err)
        ELSE rq' = [rq EXCEPT ![p].pc = "validate_access", ![p].uid = u.user.id,
                              ![p].email = c.email]
  /\ UNCHANGED <<users, userApps, now, issued, revoked, loggedOut>>

\* A variant of ValidateAccess that creates the missing row, as Login does.
ValidateAccessCreating(p) ==
  /\ rq[p].pc = "validate_access"
  /\ LET e == isAccessAllowed(userApps, rq[p].uid, AppOf(p).ID)
         n == [id |-> MaxId(userApps) + 1, user_id |-> rq[p].uid,
               app_id |-> AppOf(p).ID, is_enabled |-> TRUE]
     IN IF Is(e, "storage.ErrUserAppNotFound")
        THEN userApps' = userApps \cup {n} /\ Finish(p, rq[p].email, NoErr)
        ELSE IF e # NoErr
        THEN userApps' = userApps /\ Finish(p, None, e)
        ELSE userApps' = userApps /\ Finish(p, rq[p].email, NoErr)
  /\ UNCHANGED <<users, now, issued, revoked, loggedOut>>

\* A variant of ValidateAccess for a service in which a Logout ends the
\* tokens of the pair for good.
ValidateAccessDenyLoggedOut(p) ==
  /\ rq[p].pc = "validate_access"
  /\ LET e == isAccessAllowed(userApps, rq[p].uid, AppOf(p).ID)
     IN IF e # NoErr
        THEN Finish(p, None, e)
        ELSE IF rq[p].regranted
        THEN Finish(p, None, {"auth.ErrUserAppNotEnabled"})
        ELSE Finish(p, rq[p].email, NoErr)
  /\ UNCHANGED <<users, userApps, now, issued, revoked, loggedOut>>

\* isAccessAllowed and the return.
ValidateAccess(p) ==
  /\ rq[p].pc = "validate_access"
  /\ LET e == isAccessAllowed(userApps, rq[p].uid, AppOf(p).ID)
     IN IF e # NoErr
        THEN Finish(p, None, e)
        ELSE Finish(p, rq[p].email, NoErr)
  /\ UNCHANGED <<users, userApps, now, issued, revoked, loggedOut>>

\* ---------------------------------------------------- Auth.AccessControl
\* A variant of AccessUser that answers a failed lookup with the app code.
AccessUserIgnoringErrors(p) ==
  /\ rq[p].pc = "access_user"
  /\ LET u == getUser(users, rq[p].email)
     IN IF u.err # NoErr
        THEN Finish(p, rq[p].appCode, NoErr)
        ELSE rq' = [rq EXCEPT ![p].pc = "access_app", ![p].uid = u.user.id]
  /\ UNCHANGED <<users, userApps, now, issued, revoked, loggedOut>>

AccessUser(p) ==
  /\ rq[p].pc = "access_user"
  /\ LET u == getUser(users, rq[p].email)
     IN IF u.err # NoErr
        THEN Finish(p, "", u.err)
        ELSE rq' = [rq EXCEPT ![p].pc = "access_app", ![p].uid = u.user.id]
  /\ UNCHANGED <<users, userApps, now, issued, revoked, loggedOut>>

\* getApp of the revision that has AccessControl: the store's error is passed
\* on wrapped, not-found included.
AccessApp(p) ==
  /\ rq[p].pc = "access_app"
  /\ LET a == App(rq[p].appCode)
     IN IF a.err # NoErr
        THEN Finish(p, "", a.err)
        ELSE Goto(p, "access_userapp")
  /\ UNCHANGED <<users, userApps, now, issued, revoked, loggedOut>>

AccessUserApp(p) ==
  /\ rq[p].pc = "access_userapp"
  /\ LET r == getUserApp(userApps, rq[p].uid, AppOf(p).ID)
     IN IF r.err # NoErr /\ Is(r.err, "storage.ErrUserAppNotFound")
        THEN Goto(p, "access_save")
        ELSE IF r.err # NoErr
        THEN Finish(p, "", r.err)
        ELSE Goto(p, "access_update")
  /\ UNCHANGED <<users, userApps, now, issued, revoked, loggedOut>>

\* A grant for the pair of slot p has succeeded: the history of its Logout ends.
Granted(p) ==
  /\ loggedOut' = loggedOut \ {<<rq[p].email, rq[p].appCode>>}
  /\ revoked' =
       {x \in revoked : \/ ~(x[1].email = rq[p].email /\ x[2] = rq[p].appCode)
                        \/ Len(x) = 3 /\ x[3] = "Granted"}
       \cup {<<x[1], x[2], "Granted">> : x \in
               {y \in revoked : /\ y[1].email = rq[p].email /\ y[2] = rq[p].appCode
                                /\ Len(y) = 2}}

ClearAfter(p, r) ==
  [q \in Procs |->
     IF q # p /\ r[q].appCode = r[p].appCode
        /\ \/ r[q].op = "Login" /\ r[q].email = r[p].email
           \/ r[q].op = "Validate" /\ r[q].token.email = r[p].email
     THEN [r[q] EXCEPT !.after = FALSE, !.afterRevoke = FALSE]
     ELSE r[q]]

AccessDone(p, err) ==
  IF err # NoErr
  THEN /\ Finish(p, "", err)
       /\ UNCHANGED <<revoked, loggedOut>>
  ELSE IF rq[p].isEnabled
  THEN /\ rq' = ClearAfter(p, [rq EXCEPT ![p] = [@ EXCEPT !.pc = "done",
                                                       !.val = AppOf(p).Code,
                                                       !.err = NoErr]])
       /\ Granted(p)
  ELSE /\ Finish(p, AppOf(p).Code, NoErr)
       /\ revoked' = revoked \cup
            { <<t, rq[p].appCode, "AccessControl">> : t \in
                {t \in issued : t.email = rq[p].email
                                /\ t.app_code = AppOf(p).Code} }
       /\ UNCHANGED loggedOut

\* saveUserApp with the requested flag.
AccessSave(p) ==
  /\ rq[p].pc = "access_save"
  /\ LET r == saveUserApp(users, userApps, rq[p].uid, AppOf(p).ID, rq[p].isEnabled)
     IN /\ users' = r.users
        /\ userApps' = r.userApps
        /\ AccessDone(p, r.err)
  /\ UNCHANGED <<now, issued>>

\* UpdateUserApp with the requested flag.
AccessUpdate(p) ==
  /\ rq[p].pc = "access_update"
  /\ LET r == UpdateUserApp(userApps, rq[p].uid, AppOf(p).ID, rq[p].isEnabled)
     IN /\ userApps' = r.userApps
        /\ AccessDone(p, r.err)
  /\ UNCHANGED <<users, now, issued>>

\* ---------------------------------------------------------- specifications
Step(p) ==
  \/ Register(p)
  \/ LoginUser(p) \/ LoginApp(p) \/ LoginUserApp(p) \/ LoginSave(p) \/ LoginToken(p)
  \/ LogoutUser(p) \/ LogoutApp(p) \/ LogoutUserApp(p) \/ LogoutUpdate(p)
  \/ ValidateParse(p) \/ ValidateUser(p) \/ ValidateAccess(p)
  \/ AccessUser(p) \/ AccessApp(p) \/ AccessUserApp(p) \/ AccessSave(p)
  \/ AccessUpdate(p)
  \/ Return(p)

\* One request at a time, over the full input sets.
Next ==
  /\ \/ Tick
     \/ \E e \in Emails, pw \in Passwords \cup {ShortPassword, Password72, LongPassword} :
          StartRegister(1, e, pw)
     \/ \E e \in Emails, pw \in Passwords \cup {Password72, LongPassword}, c \in AppCodes :
          StartLogin(1, e, pw, c)
     \/ \E e \in Emails \cup {""}, c \in AppCodes \cup {""} : StartLogout(1, e, c)
     \/ \E t \in TokenInputs \cup {EmptyToken}, c \in AppCodes \cup {""} :
          StartValidate(1, t, c)
     \/ \E e \in Emails \cup {""}, c \in AppCodes \cup {""}, b \in BOOLEAN :
          StartAccessControl(1, e, c, b)
     \/ \E p \in Procs : Step(p)
  /\ UNCHANGED <<apps, tvars>>

Spec == Init /\ [][Next]_vars

\* --------------------------------------------------------- store failures
\* What a store call returns when it fails for a reason other than its
\* sentinels: ctx.Err(), wrapped, when the caller's context is over, the
\* driver's error, wrapped, otherwise.
ContextErrors == {"context.Canceled", "context.DeadlineExceeded"}
StoreFaults == ContextErrors \cup {"sqlite3.Error"}
StoreFailure(f) == {f}

\* The value an engine operation returns next to an error.
Zero(op) ==
  CASE op = "Register" -> 0
    [] op = "Login" -> None
    [] op = "Logout" -> FALSE
    [] op = "Validate" -> None
    [] op = "AccessControl" -> ""

\* The error the operation of slot p returns when the store call it is
\* about to make fails with e; none when its step makes no store call.
FaultOutcomes(p, e) ==
  LET pc == rq[p].pc
      failedUser == getUserOf([user |-> NoUser, err |-> e]).err
      failedApp == getAppOf([app |-> NoApp, err |-> e]).err
      failedUserApp == getUserAppOf([userApp |-> NoUserApp, err |-> e]).err
  IN CASE pc = "register" ->
            IF GenerateFromPassword(rq[p].password).err = NoErr THEN {e} ELSE {}
       [] pc = "login_user" ->
            IF LoginArgs(rq[p].email, rq[p].password, rq[p].appCode) = NoErr
            THEN {failedUser} ELSE {}
       [] pc \in {"logout_user", "access_user"} -> {failedUser}
       [] pc \in {"login_app", "logout_app", "validate_parse"} -> {failedApp}
       [] pc = "access_app" -> {e}
       [] pc = "validate_user" ->
            IF JwtClaims(rq[p].token, now).err = NoErr THEN {failedUser} ELSE {}
       [] pc \in {"login_userapp", "logout_userapp", "validate_access",
                  "access_userapp"} -> {failedUserApp}
       [] pc \in {"login_save", "access_save", "logout_update", "access_update"} -> {e}
       [] OTHER -> {}

\* A variant of StoreFault in which the engine makes the failed call again.
StoreFaultRetried(p, f) ==
  /\ FaultOutcomes(p, StoreFailure(f)) # {}
  /\ rq[p].fault = None
  /\ rq' = [rq EXCEPT ![p].fault = f]
  /\ UNCHANGED <<users, userApps, now, issued, revoked, loggedOut>>

\* The store call that the operation of slot p is about to make fails with f:
\* the operation returns the error at once and writes nothing.
StoreFault(p, f) ==
  /\ \E err \in FaultOutcomes(p, StoreFailure(f)) :
       rq' = [rq EXCEPT ![p] = [@ EXCEPT !.pc = "done", !.val = Zero(rq[p].op),
                                         !.err = err, !.fault = f]]
  /\ UNCHANGED <<users, userApps, now, issued, revoked, loggedOut>>

\* One request at a time, over the full input sets, with store calls that
\* can fail.
NextFault ==
  \/ Next
  \/ /\ \E p \in Procs, f \in StoreFaults : StoreFault(p, f)
     /\ UNCHANGED <<apps, tvars>>

\* The faults are followed over the provisioning with a secret per app.
InitFault ==
  /\ Init
  /\ \A a, b \in apps : a.secret = b.secret => a = b

SpecFault == InitFault /\ [][NextFault]_vars

\* Requests in every slot at once, interleaved store call by store call, on
\* one user and one app, within one tick of the clock.
RaceTokens == issued \cup {t \in Outstanding : t.app_code = "Web" /\ t.exp > 0}

InitRace ==
  /\ apps \in AppsTables
  /\ users = {FirstUser}
  /\ userApps \in RowChoices(CHOOSE a \in apps : a.code = "web")
  /\ now = 0
  /\ rq = [p \in Procs |-> Idle]
  /\ issued = {}
  /\ revoked = {}
  /\ loggedOut = {}
  /\ redis = [e \in Emails |-> NoKey]
  /\ windowStart = [e \in Emails |-> 0]
  /\ rateLimitBackend = "nil"

NextRace ==
  /\ \/ \E p \in Procs : StartRegister(p, "b@x", "password1")
     \/ \E p \in Procs : StartLogin(p, "a@x", "password1", "web")
     \/ \E p \in Procs : StartLogout(p, "a@x", "web")
     \/ \E p \in Procs, t \in RaceTokens : StartValidate(p, t, "web")
     \/ \E p \in Procs, b \in BOOLEAN : StartAccessControl(p, "a@x", "web", b)
     \/ \E p \in Procs : Step(p)
  /\ UNCHANGED <<apps, tvars>>

SpecRace == InitRace /\ [][NextRace]_vars

\* ----------------------------------------------------- the login throttle
\* LoginRateLimiter.Unary, the interceptor in front of serverAPI.Login, and
\* its Redis backend.  The limit and the window come from the configuration
\* (login_limit, login_window); the window is counted in ticks.
LoginLimit == 1
LoginWindow == 2
MaxAttempts == 3

\* A variant of RedisIncr that counts every attempt on every key.
RedisIncrAllKeys(rd, key) ==
  [redis |-> [e \in DOMAIN rd |-> [rd[e] EXCEPT !.n = @ + 1]], val |-> rd[key].n + 1]

\* A variant of RedisIncr that counts an attempt twice.
RedisIncrTwice(rd, key) ==
  [redis |-> [rd EXCEPT ![key].n = @ + 2], val |-> rd[key].n + 2]

\* Redis INCR: a key that does not exist counts from 0; the TTL is untouched.
RedisIncr(rd, key) ==
  [redis |-> [rd EXCEPT ![key].n = @ + 1], val |-> rd[key].n + 1]

\* Redis EXPIRE at instant t: a key that exists expires at t + ttl.
RedisExpire(rd, key, ttl, t) ==
  IF rd[key].n = 0 THEN rd ELSE [rd EXCEPT ![key].ttl = t + ttl]

\* Redis drops a key once the clock is past its expiry: at the instant of
\* the expiry itself the key is still there.
RedisAt(rd, t) ==
  [e \in DOMAIN rd |-> IF rd[e].ttl # NoTTL /\ t > rd[e].ttl THEN NoKey ELSE rd[e]]

TooManyAttempts ==
  Status("ResourceExhausted", "too many login attempts, try again later")

\* The clock of the throttled service: keys expire as it advances.
TickThrottle ==
  /\ now < MaxTime
  /\ now' = now + 1
  /\ redis' = RedisAt(redis, now + 1)
  /\ UNCHANGED <<users, userApps, rq, issued, revoked, loggedOut, windowStart>>

\* A Login request arrives at the interceptor.
StartThrottledLogin(p, email, password, appCode) ==
  /\ rq[p].pc = "idle"
  /\ email # ""
     => redis[email].n
          + Cardinality({q \in Procs : rq[q].pc = "throttle_incr" /\ rq[q].email = email})
        < MaxAttempts
  /\ rq' = [rq EXCEPT ![p] = [Idle EXCEPT !.pc = "throttle_incr", !.op = "Login",
                                          !.email = email, !.password = password,
                                          !.appCode = appCode,
                                          !.after = (<<email, appCode>> \in loggedOut),
                                          !.first = (RowsOf(email, appCode) = {})]]
  /\ UNCHANGED <<users, userApps, now, issued, revoked, loggedOut, redis, windowStart>>

\* if l.rateLimitBackend == nil { return handler(ctx, req) }
ThrottleSkip(p) ==
  /\ rq[p].pc = "throttle_incr"
  /\ rateLimitBackend = "nil"
  /\ Goto(p, "login_user")
  /\ UNCHANGED <<users, userApps, now, issued, revoked, loggedOut, redis, windowStart>>

\* email := loginReq.GetEmail(); if email == "" { return handler(ctx, req) }
ThrottleEmptyEmail(p) ==
  /\ rq[p].pc = "throttle_incr"
  /\ rateLimitBackend # "nil"
  /\ rq[p].email = ""
  /\ Goto(p, "login_user")
  /\ UNCHANGED <<users, userApps, now, issued, revoked, loggedOut, redis, windowStart>>

\* A variant of ThrottleIncr that turns the request down when Incr fails.
ThrottleIncrFailClosed(p) ==
  /\ rq[p].pc = "throttle_incr"
  /\ rateLimitBackend # "nil"
  /\ rq[p].email # ""
  /\ \/ LET r == RedisIncr(redis, rq[p].email)
        IN /\ redis' = r.redis
           /\ rq' = [rq EXCEPT ![p].attempts = r.val,
                               ![p].window = IF r.val = 1 THEN now
                                             ELSE windowStart[rq[p].email],
                               ![p].pc = IF r.val = 1 THEN "throttle_expire"
                                         ELSE "throttle_limit"]
           /\ windowStart' = IF r.val = 1
                             THEN [windowStart EXCEPT ![rq[p].email] = now]
                             ELSE windowStart
     \/ /\ Goto(p, "rejected")
        /\ UNCHANGED <<redis, windowStart>>
  /\ UNCHANGED <<users, userApps, now, issued, revoked, loggedOut>>

\* A variant of ThrottleIncr that counts whatever the interceptor was built
\* with.
ThrottleIncrAnyBackend(p) ==
  /\ rq[p].pc = "throttle_incr"
  /\ LET r == RedisIncr(redis, rq[p].email)
     IN /\ redis' = r.redis
        /\ rq' = [rq EXCEPT ![p].attempts = r.val,
                            ![p].window = IF r.val = 1 THEN now
                                          ELSE windowStart[rq[p].email],
                            ![p].pc = IF r.val = 1 THEN "throttle_expire"
                                      ELSE "throttle_limit"]
        /\ windowStart' = IF r.val = 1
                          THEN [windowStart EXCEPT ![rq[p].email] = now]
                          ELSE windowStart
  /\ UNCHANGED <<users, userApps, now, issued, revoked, loggedOut>>

\* A variant of ThrottleIncr that sets the expiry after every attempt.
ThrottleIncrAlwaysExpire(p) ==
  /\ rq[p].pc = "throttle_incr"
  /\ rateLimitBackend # "nil"
  /\ \/ LET r == RedisIncr(redis, rq[p].email)
        IN /\ redis' = r.redis
           /\ rq' = [rq EXCEPT ![p].attempts = r.val,
                               ![p].window = IF r.val = 1 THEN now
                                             ELSE windowStart[rq[p].email],
                               ![p].pc = "throttle_expire"]
           /\ windowStart' = IF r.val = 1
                             THEN [windowStart EXCEPT ![rq[p].email] = now]
                             ELSE windowStart
     \/ /\ Goto(p, "login_user")
        /\ UNCHANGED <<redis, windowStart>>
  /\ UNCHANGED <<users, userApps, now, issued, revoked, loggedOut>>

\* attempts, err := Incr(key); on an error the request goes to the handler.
ThrottleIncr(p) ==
  /\ rq[p].pc = "throttle_incr"
  /\ rateLimitBackend # "nil"
  /\ rq[p].email # ""
  /\ \/ LET r == RedisIncr(redis, rq[p].email)
        IN /\ redis' = r.redis
           /\ rq' = [rq EXCEPT ![p].attempts = r.val,
                               ![p].window = IF r.val = 1 THEN now
                                             ELSE windowStart[rq[p].email],
                               ![p].pc = IF r.val = 1 THEN "throttle_expire"
                                         ELSE "throttle_limit"]
           /\ windowStart' = IF r.val = 1
                             THEN [windowStart EXCEPT ![rq[p].email] = now]
                             ELSE windowStart
     \/ /\ Goto(p, "login_user")
        /\ UNCHANGED <<redis, windowStart>>
  /\ UNCHANGED <<users, userApps, now, issued, revoked, loggedOut>>

\* if attempts == 1 { _ = Expire(key, window) }: the error is dropped.
ThrottleExpire(p) ==
  /\ rq[p].pc = "throttle_expire"
  /\ \/ redis' = RedisExpire(redis, rq[p].email, LoginWindow, now)
     \/ redis' = redis
  /\ Goto(p, "throttle_limit")
  /\ UNCHANGED <<users, userApps, now, issued, revoked, loggedOut, windowStart>>

\* A variant of ThrottleLimit that looks the user up before it rejects.
ThrottleLimitAfterLookup(p) ==
  /\ rq[p].pc = "throttle_limit"
  /\ IF rq[p].attempts > LoginLimit
     THEN rq' = [rq EXCEPT ![p].pc = "rejected",
                           ![p].uid = getUser(users, rq[p].email).user.id]
     ELSE Goto(p, "login_user")
  /\ UNCHANGED <<users, userApps, now, issued, revoked, loggedOut, redis, windowStart>>

\* if attempts > limit { return ResourceExhausted }; return handler(ctx, req)
ThrottleLimit(p) ==
  /\ rq[p].pc = "throttle_limit"
  /\ IF rq[p].attempts > LoginLimit
     THEN Goto(p, "rejected")
     ELSE Goto(p, "login_user")
  /\ UNCHANGED <<users, userApps, now, issued, revoked, loggedOut, redis, windowStart>>

\* The client has read the rejection.
ReturnRejected(p) ==
  /\ rq[p].pc = "rejected"
  /\ rq' = [rq EXCEPT ![p] = Idle]
  /\ UNCHANGED <<users, userApps, now, issued, revoked, loggedOut, redis, windowStart>>

\* The handler behind the interceptor.
LoginStep(p) ==
  /\ \/ LoginUser(p) \/ LoginApp(p) \/ LoginUserApp(p) \/ LoginSave(p)
     \/ LoginToken(p)
     \/ Return(p)
  /\ UNCHANGED tvars

InitThrottle ==
  /\ apps \in {t \in AppsTables : \A a, b \in t : a.secret = b.secret => a = b}
  /\ users = {FirstUser}
  /\ userApps \in RowChoices(CHOOSE a \in apps : a.code = "web")
  /\ now = 0
  /\ rq = [p \in Procs |-> Idle]
  /\ issued = {}
  /\ revoked = {}
  /\ loggedOut = {}
  /\ redis = [e \in Emails |-> NoKey]
  /\ windowStart = [e \in Emails |-> 0]
  /\ rateLimitBackend \in {"redis", "nil"}

\* Logins with one email and the right or a wrong password, in every slot at
\* once.
NextThrottle ==
  /\ \/ TickThrottle
     \/ \E p \in Procs, pw \in Passwords : StartThrottledLogin(p, "a@x", pw, "web")
     \/ \E p \in Procs : ThrottleSkip(p)
     \/ \E p \in Procs : ThrottleIncr(p)
     \/ \E p \in Procs : ThrottleExpire(p)
     \/ \E p \in Procs : ThrottleLimit(p)
     \/ \E p \in Procs : ReturnRejected(p)
     \/ \E p \in Procs : LoginStep(p)
  /\ UNCHANGED <<apps, rateLimitBackend>>

SpecThrottle == InitThrottle /\ [][NextThrottle]_vars

\* Logins with two emails, one of a registered user who holds an enabled row
\* and one of nobody, behind an interceptor built with the Redis backend.
InitKeys ==
  /\ InitThrottle
  /\ rateLimitBackend = "redis"
  /\ \E r \in userApps : r.is_enabled

NextKeys ==
  /\ \/ TickThrottle
     \/ \E p \in Procs, e \in Emails : StartThrottledLogin(p, e, "password1", "web")
     \/ \E p \in Procs : ThrottleIncr(p)
     \/ \E p \in Procs : ThrottleExpire(p)
     \/ \E p \in Procs : ThrottleLimit(p)
     \/ \E p \in Procs : ReturnRejected(p)
     \/ \E p \in Procs : LoginStep(p)
  /\ UNCHANGED <<apps, rateLimitBackend>>

SpecKeys == InitKeys /\ [][NextKeys]_vars

\* ------------------------------------------------------------- properties
AccessDenied == Status("Unauthenticated", "Access denied")

\* C1: once a Logout of a user and an app has succeeded, ValidateToken on a
\* token that Login issued for that user and app before the Logout, called
\* before the token's expiry, fails with AccessDenied for as long as no
\* AccessControl grant has succeeded; and it never returns the email.
C1_LogoutRevokesTokens ==
  \A p \in Procs :
    (rq[p].pc = "done" /\ rq[p].op = "Validate" /\ rq[p].after)
    => /\ rq[p].err # NoErr
       /\ now < ExpTime(rq[p].token.exp)
          => /\ Is(rq[p].err, "auth.ErrUserAppNotEnabled")
             /\ Response(p) = AccessDenied

C1_Witness ==
  \E p \in Procs :
    /\ rq[p].pc = "done" /\ rq[p].op = "Validate" /\ rq[p].after
    /\ rq[p].token \in issued
    /\ <<rq[p].email, rq[p].appCode>> \in loggedOut
    /\ now < ExpTime(rq[p].token.exp)
    /\ Response(p) = AccessDenied

\* C2: once a Logout of a user and an app has succeeded, a Login with the
\* correct credentials for that user and app fails with AccessDenied and
\* returns no token, for as long as no AccessControl grant has succeeded.
C2_LoginDeniedAfterLogout ==
  \A p \in Procs :
    (/\ rq[p].pc = "done" /\ rq[p].op = "Login" /\ rq[p].after
     /\ CorrectCredentials(rq[p].email, rq[p].password))
    => /\ Response(p) = AccessDenied
       /\ rq[p].val = None

\* C3: when every slot holds a finished Login with the correct credentials
\* for one user and one app, each begun while the pair had no row, every one
\* of them has returned a token and the pair has exactly one row, enabled.
C3_ConcurrentFirstLogins ==
  (\A p \in Procs :
     /\ rq[p].pc = "done" /\ rq[p].op = "Login" /\ rq[p].first
     /\ rq[p].email = "a@x" /\ rq[p].appCode = "web"
     /\ CorrectCredentials(rq[p].email, rq[p].password))
  => /\ \A p \in Procs : rq[p].err = NoErr /\ rq[p].val # None
     /\ \E r \in userApps : RowsOf("a@x", "web") = {r} /\ r.is_enabled

\* C4: a finished Login with the correct credentials and an existing app,
\* begun while the pair had no row, has returned a token and has left the
\* pair with a row that is enabled.
C4_FirstLoginCreatesRow ==
  \A p \in Procs :
    (/\ rq[p].pc = "done" /\ rq[p].op = "Login" /\ rq[p].first
     /\ CorrectCredentials(rq[p].email, rq[p].password)
     /\ AppExists(rq[p].appCode))
    => /\ rq[p].err = NoErr /\ rq[p].val # None
       /\ \E r \in RowsOf(rq[p].email, rq[p].appCode) : r.is_enabled

\* C5: in every reachable state, whatever the interleaving of Register,
\* Login, Logout, ValidateToken and AccessControl, user_app holds at most one
\* row for a user and an app.
C5_OneRowPerPair ==
  \A r1 \in userApps, r2 \in userApps :
    (r1.user_id = r2.user_id /\ r1.app_id = r2.app_id) => r1 = r2

\* Two Logins that both found no row have both gone through SaveUserApp.
C5_Witness ==
  \E p \in Procs, q \in Procs :
    /\ p # q
    /\ \A x \in {p, q} :
         /\ rq[x].pc = "done" /\ rq[x].op = "Login" /\ rq[x].first
         /\ Is(rq[x].err, "sql.ErrArguments")
    /\ Cardinality(RowsOf("a@x", "web")) <= 1

\* The token carries an HMAC signature made with the secret of the app that
\* appCode names.
SignedFor(token, appCode) ==
  /\ AppExists(appCode)
  /\ token.alg \in SigningMethodHMAC
  /\ token.key = App(appCode).app.Secret

\* The user_app row of the user that the email names and of the app that
\* appCode names exists and is enabled.
Entitled(email, appCode) == \E r \in RowsOf(email, appCode) : r.is_enabled

\* C6: ValidateToken returns the email only if, when it makes each of its
\* checks, the token is signed with the secret of the app that appCode
\* names, the expiry instant has not passed, and the row of the user and
\* the app exists with enabled = true; nothing about the time of issuance
\* is consulted.  A call gets past the signature check only with a matching
\* key and an expiry not passed, past the claims check only with an expiry
\* not passed, and returns the email only from the access check on an
\* enabled row.
C6_ValidateOnlyIf ==
  [][\A p \in Procs :
       rq[p].op = "Validate" =>
         /\ (rq[p].pc # "validate_user" /\ rq'[p].pc = "validate_user")
            => /\ rq[p].pc = "validate_parse"
               /\ SignedFor(rq[p].token, rq[p].appCode)
               /\ now <= ExpTime(rq[p].token.exp)
         /\ (rq[p].pc # "validate_access" /\ rq'[p].pc = "validate_access")
            => /\ rq[p].pc = "validate_user"
               /\ now <= ExpTime(rq[p].token.exp)
         /\ (rq[p].pc # "done" /\ rq'[p].pc = "done" /\ rq'[p].err = NoErr)
            => /\ rq[p].pc = "validate_access"
               /\ SignedFor(rq[p].token, rq[p].appCode)
               /\ Entitled(rq[p].token.email, rq[p].appCode)
               /\ rq'[p].val = rq[p].token.email]_vars

\* A call has returned the email of a token issued before the service's start.
C6_Witness ==
  \E p \in Procs :
    /\ rq[p].pc = "done" /\ rq[p].op = "Validate" /\ rq[p].err = NoErr
    /\ rq[p].token \in Outstanding
    /\ rq[p].val = rq[p].token.email
    /\ Entitled(rq[p].token.email, rq[p].appCode)

\* C7: ValidateToken on a correctly signed, unexpired token of a user that
\* has no row for the app fails with AccessDenied, the answer a disabled row
\* gets, and creates no row.
C7_MissingRowIsAccessDenied ==
  \A p \in Procs :
    (/\ rq[p].pc = "done" /\ rq[p].op = "Validate"
     /\ SignedFor(rq[p].token, rq[p].appCode)
     /\ now < ExpTime(rq[p].token.exp)
     /\ Registered(rq[p].token.email)
     /\ RowsOf(rq[p].token.email, rq[p].appCode) = {})
    => Response(p) = AccessDenied

\* C8: no step of ValidateToken, whatever its outcome, changes the users or
\* the user_app rows and their enabled flags.
C8_ValidateWritesNothing ==
  [][\A p \in Procs :
       (/\ rq[p].op = "Validate"
        /\ rq[p].pc \in {"validate_parse", "validate_user", "validate_access"}
        /\ rq'[p].pc # rq[p].pc)
       => (users' = users /\ userApps' = userApps)]_vars

\* A call has gone through its access check for a pair without a row, and the
\* pair still has none.
C8_Witness ==
  \E p \in Procs :
    /\ rq[p].pc = "done" /\ rq[p].op = "Validate"
    /\ Is(rq[p].err, "storage.ErrUserAppNotFound")
    /\ RowsOf(rq[p].token.email, rq[p].appCode) = {}

\* The error says that an expiry check has failed.
ExpiryFailed(err) == Is(err, "lib.ErrTokenExpired") \/ Is(err, "jwt.ErrTokenExpired")

\* C9: a token whose expiry instant is E passes the expiry check at every
\* time t <= E, t = E included, and fails it at every t > E: a call on a
\* correctly signed token is stopped by an expiry check only when t > E,
\* and gets past one only when t <= E.
C9_ExpiryInclusive ==
  [][\A p \in Procs :
       (/\ rq[p].op = "Validate"
        /\ rq[p].pc \in {"validate_parse", "validate_user"}
        /\ rq'[p].pc # rq[p].pc
        /\ SignedFor(rq[p].token, rq[p].appCode))
       => /\ (rq'[p].pc = "done" /\ ExpiryFailed(rq'[p].err))
             => now > ExpTime(rq[p].token.exp)
          /\ rq'[p].pc # "done" => now <= ExpTime(rq[p].token.exp)]_vars

\* C10: ValidateToken on a correctly signed token whose expiry instant has
\* passed fails with TokenExpired, which the client can tell from
\* TokenInvalid.
C10_ExpiredIsTokenExpired ==
  [][\A p \in Procs :
       (/\ rq[p].op = "Validate"
        /\ rq[p].pc = "validate_parse"
        /\ rq'[p].pc # rq[p].pc
        /\ SignedFor(rq[p].token, rq[p].appCode)
        /\ now > ExpTime(rq[p].token.exp))
       => /\ rq'[p].pc = "done"
          /\ Is(rq'[p].err, "jwt.ErrTokenExpired")
          /\ ValidateResponse(rq'[p].val, rq'[p].err)
               = Status("Unauthenticated", "Token is expired")]_vars

C12_RegisterNoEntitlement ==
  [][\A p \in Procs :
       (rq[p].pc = "register" /\ rq'[p].pc # rq[p].pc)
       => /\ userApps' = userApps
          /\ rq'[p].err = NoErr
             => \A r \in userApps' : r.user_id # rq'[p].val]_vars

\* A Register has created a user while other users have rows; the new user
\* has none.
C12_Witness ==
  \E p \in Procs :
    /\ rq[p].pc = "done" /\ rq[p].op = "Register" /\ rq[p].err = NoErr
    /\ userApps # {}
    /\ \A a \in apps : RowsOf(rq[p].email, a.code) = {}

InvalidCredentials == Status("InvalidArgument", "invalid email or password")

\* C13: a Login with an email that is not registered and a Login with a
\* registered email and a password that is not the one the user registered
\* with get the same answer, 'invalid email or password' and no token,
\* whatever the app code, existing or not; so the answer does not tell
\* whether the email is registered.
C13_LoginHidesRegistration ==
  \A p \in Procs :
    (/\ rq[p].pc = "done" /\ rq[p].op = "Login"
     /\ \/ ~Registered(rq[p].email)
        \/ rq[p].password # RegisteredPassword(rq[p].email))
    => /\ Response(p) = InvalidCredentials
       /\ rq[p].val = None
       /\ rq[p].err = {"auth.ErrInvalidCredentials"}

\* C14: a Login with the correct credentials and an app code that is not
\* registered is answered with an app-not-found error that is neither the
\* answer to invalid credentials nor the answer to an internal failure,
\* returns no token and creates no user_app row.
C14_LoginUnknownApp ==
  \A p \in Procs :
    (/\ rq[p].pc = "done" /\ rq[p].op = "Login"
     /\ CorrectCredentials(rq[p].email, rq[p].password)
     /\ ~AppExists(rq[p].appCode))
    => /\ Is(rq[p].err, "auth.ErrAppNotFound")
       /\ rq[p].val = None
       /\ Response(p) # InvalidCredentials
       /\ Response(p) # Status("Internal", "failed to login")

\* C15: for a registered user and an existing app, AccessControl(email,
\* appCode, e) returns the app code without error and leaves exactly one
\* user_app row for the pair, with enabled = e, whether the pair had no row,
\* an enabled row or a disabled row before.
C15_AccessControlSetsFlag ==
  \A p \in Procs :
    (/\ rq[p].pc = "done" /\ rq[p].op = "AccessControl"
     /\ Registered(rq[p].email) /\ AppExists(rq[p].appCode))
    => /\ rq[p].err = NoErr
       /\ rq[p].val = rq[p].appCode
       /\ Response(p) = OK(rq[p].appCode)
       /\ \E r \in userApps :
            RowsOf(rq[p].email, rq[p].appCode) = {r} /\ r.is_enabled = rq[p].isEnabled

\* C16: a Logout of a registered user and an existing app whose pair has no
\* user_app row fails with the store's row-not-found error, which is not the
\* access-denied error and is not answered as 'Access denied', and it
\* creates no row.
C16_LogoutWithoutRow ==
  \A p \in Procs :
    (/\ rq[p].pc = "done" /\ rq[p].op = "Logout" /\ rq[p].first
     /\ Registered(rq[p].email) /\ AppExists(rq[p].appCode))
    => /\ Is(rq[p].err, "storage.ErrUserAppNotFound")
       /\ ~Is(rq[p].err, "auth.ErrUserAppNotEnabled")
       /\ rq[p].val = FALSE
       /\ Response(p) # AccessDenied
       /\ RowsOf(rq[p].email, rq[p].appCode) = {}

C16_Witness ==
  \E p \in Procs :
    /\ rq[p].pc = "done" /\ rq[p].op = "Logout" /\ rq[p].first
    /\ Registered(rq[p].email) /\ AppExists(rq[p].appCode)
    /\ Is(rq[p].err, "storage.ErrUserAppNotFound")
    /\ RowsOf(rq[p].email, rq[p].appCode) = {}

\* C17: a Logout with an unregistered email fails with a user-not-found
\* answer, a Logout with an unknown app code fails with an app-not-found
\* answer, the two answers differ, and neither call creates or changes a
\* user_app row.
C17_LogoutNotFoundAnswers ==
  [][\A p \in Procs :
       (rq[p].pc \in {"logout_user", "logout_app"} /\ rq'[p].pc # rq[p].pc)
       => /\ (rq[p].pc = "logout_user" /\ ~Registered(rq[p].email))
             => /\ rq'[p].pc = "done" /\ rq'[p].err # NoErr
                /\ userApps' = userApps
                /\ LogoutResponse(rq'[p].val, rq'[p].err)
                     # LogoutResponse(FALSE, {"auth.ErrAppNotFound"})
          /\ (rq[p].pc = "logout_app" /\ ~AppExists(rq[p].appCode))
             => /\ rq'[p].pc = "done" /\ Is(rq'[p].err, "auth.ErrAppNotFound")
                /\ userApps' = userApps
                /\ LogoutResponse(rq'[p].val, rq'[p].err)
                     # LogoutResponse(FALSE, {"auth.ErrInvalidCredentials"})]_vars

\* The slots that hold a Login of the email with the correct password that
\* the throttle has counted in the current window and that is over, rejected
\* or answered.
CountedLogins(email) ==
  {p \in Procs : /\ rq[p].op = "Login" /\ rq[p].email = email
                 /\ CorrectCredentials(rq[p].email, rq[p].password)
                 /\ rq[p].attempts >= 1
                 /\ rq[p].window = windowStart[email]
                 /\ rq[p].pc \in {"done", "rejected"}}

\* C18: with limit L, when n > L Login requests for one email, made at once
\* inside one window, have all been counted and are all over, exactly L of
\* them have reached the Login handler and exactly n - L have been rejected
\* with ResourceExhausted; with the correct credentials each of the L
\* admitted requests has received a token.
C18_ThrottleAdmitsExactlyLimit ==
  (/\ CountedLogins("a@x") = Procs
   /\ redis["a@x"].n = NumProcs
   /\ \A p \in Procs, q \in Procs : p # q => rq[p].attempts # rq[q].attempts)
  => /\ Cardinality({p \in Procs : rq[p].pc = "rejected"}) = NumProcs - LoginLimit
     /\ Cardinality({p \in Procs : rq[p].pc = "done"}) = LoginLimit
     /\ \A p \in Procs : rq[p].pc = "done" => rq[p].err = NoErr /\ rq[p].val # None

\* C19: an attempt for an email that the throttle counts once the window that
\* began at the first counted attempt is over is admitted again: whatever the
\* attempts and the outcomes of Incr and Expire were, an attempt is counted
\* above the limit only inside that window, its last instant included (Redis
\* keeps a key until the clock is past its expiry).
C19_ThrottleWindowEnds ==
  [][\A p \in Procs :
       (/\ rq[p].pc = "throttle_incr"
        /\ rq'[p].pc \in {"throttle_expire", "throttle_limit"}
        /\ rq'[p].attempts > LoginLimit)
       => now <= windowStart[rq[p].email] + LoginWindow]_vars

\* C20: a Login request that the throttle rejects goes from the limit check
\* straight to the rejection: no user has been looked up for it, and its
\* steps through the interceptor leave users and user_app as they were.
C20_RejectedNeverReachesHandler ==
  [][\A p \in Procs :
       /\ (rq[p].pc # "rejected" /\ rq'[p].pc = "rejected")
          => /\ rq[p].pc = "throttle_limit"
             /\ rq[p].attempts > LoginLimit
             /\ rq'[p].uid = 0 /\ rq'[p].val = None
       /\ (/\ rq[p].pc \in {"throttle_incr", "throttle_expire", "throttle_limit",
                            "rejected"}
           /\ rq'[p].pc # rq[p].pc)
          => /\ users' = users /\ userApps' = userApps
             /\ rq'[p].pc \in {"throttle_expire", "throttle_limit", "rejected",
                               "login_user", "idle"}
       /\ rq[p].pc = "rejected" => rq'[p].pc \in {"rejected", "idle"}]_vars

C20_Witness ==
  \E p \in Procs :
    /\ rq[p].pc = "rejected" /\ rq[p].op = "Login"
    /\ rq[p].attempts > LoginLimit
    /\ rq[p].uid = 0

\* The Login requests for an email that the throttle has counted in the
\* window that is open now.
CountedNow(email) ==
  {p \in Procs : /\ rq[p].op = "Login" /\ rq[p].email = email
                 /\ rq[p].attempts >= 1
                 /\ rq[p].window = windowStart[email]}

\* C21 as stated: every Login attempt with an email raises the counter of
\* that email by exactly one on its way through the interceptor.
C21_EveryAttemptAlwaysCounts ==
  [][\A p \in Procs :
       (/\ rq[p].pc = "throttle_incr" /\ rq[p].email # ""
        /\ rq'[p].pc # "throttle_incr")
       => redis'[rq[p].email].n = redis[rq[p].email].n + 1]_vars

\* C21: every Login attempt whose Incr call returns raises the counter of its
\* email by exactly one, and no later step of the attempt changes the counter,
\* whether the attempt is rejected, fails in the handler or succeeds; the
\* attempts counted in one window hold distinct counts, an attempt counted
\* above the limit is rejected whatever its password is, and an attempt that
\* has reached the handler was counted at or below the limit.
C21_EveryAttemptCounts ==
  [][\A p \in Procs :
       /\ (/\ rq[p].pc = "throttle_incr"
           /\ rq'[p].pc \in {"throttle_expire", "throttle_limit"})
          => /\ redis'[rq[p].email].n = redis[rq[p].email].n + 1
             /\ rq'[p].attempts = redis'[rq[p].email].n
       /\ (rq[p].pc \notin {"idle", "throttle_incr"} /\ rq'[p].pc # rq[p].pc)
          => redis'[rq[p].email].n = redis[rq[p].email].n
       /\ (rq[p].pc = "throttle_limit" /\ rq'[p].pc # "throttle_limit")
          => (rq'[p].pc = "rejected") = (rq[p].attempts > LoginLimit)
       /\ \A q \in CountedNow(rq[p].email) :
            (p \in CountedNow(rq[p].email) /\ p # q)
            => rq[p].attempts # rq[q].attempts]_vars

\* After LoginLimit attempts with a wrong password, all of them answered with
\* InvalidCredentials, an attempt with the right password in the same window
\* has been rejected.
C21_Witness ==
  \E p \in Procs :
    /\ rq[p].pc = "rejected" /\ p \in CountedNow("a@x")
    /\ CorrectCredentials(rq[p].email, rq[p].password)
    /\ rq[p].attempts = LoginLimit + 1
    /\ Cardinality({q \in CountedNow("a@x") :
                       /\ rq[q].pc = "done"
                       /\ ~CorrectCredentials(rq[q].email, rq[q].password)
                       /\ Response(q) = InvalidCredentials
                       /\ rq[q].attempts <= LoginLimit}) = LoginLimit

\* C22 as stated: once an AccessControl call with enabled = false has
\* succeeded for a user and an app, every ValidateToken call on a token that
\* Login issued for the pair before it fails with AccessDenied, for as long as
\* no AccessControl grant has succeeded.
C22_RevokedAlwaysAccessDenied ==
  \A p \in Procs :
    (rq[p].pc = "done" /\ rq[p].op = "Validate" /\ rq[p].afterRevoke)
    => Response(p) = AccessDenied

\* C22: once an AccessControl call with enabled = false has succeeded for a
\* user and an app, every ValidateToken call on a token that Login issued for
\* the pair before it fails, and a call made before the token's expiry fails
\* with AccessDenied, for as long as no AccessControl grant has succeeded.
C22_RevokeDeniesTokens ==
  \A p \in Procs :
    (rq[p].pc = "done" /\ rq[p].op = "Validate" /\ rq[p].afterRevoke)
    => /\ rq[p].err # NoErr /\ rq[p].val = None
       /\ now < ExpTime(rq[p].token.exp)
          => /\ Is(rq[p].err, "auth.ErrUserAppNotEnabled")
             /\ Response(p) = AccessDenied

C22_Witness ==
  \E p \in Procs :
    /\ rq[p].pc = "done" /\ rq[p].op = "Validate" /\ rq[p].afterRevoke
    /\ rq[p].token \in issued
    /\ <<rq[p].token, rq[p].appCode, "AccessControl">> \in revoked
    /\ <<rq[p].token.email, rq[p].appCode>> \notin loggedOut
    /\ now < ExpTime(rq[p].token.exp)
    /\ Response(p) = AccessDenied

\* The rows of user_app that are not the row of this user and this app.
OtherRows(rows, email, appCode) ==
  {r \in rows : ~(/\ \E u \in users : u.email = email /\ u.id = r.user_id
                  /\ \E a \in apps : a.code = appCode /\ a.id = r.app_id)}

\* C23: no step of a Logout of a user and an app A changes a row of user_app
\* other than the row of that user and A, and for every other app code B and
\* every token ValidateToken under B answers after the step what it answered
\* before it.
C23_LogoutTouchesOneRow ==
  [][\A p \in Procs :
       (rq[p].op = "Logout" /\ rq'[p].pc # rq[p].pc)
       => /\ OtherRows(userApps', rq[p].email, rq[p].appCode)
             = OtherRows(userApps, rq[p].email, rq[p].appCode)
          /\ \A t \in TokenInputs, b \in AppCodes \ {rq[p].appCode} :
               ValidateToken(users', userApps', t, b, now)
               = ValidateToken(users, userApps, t, b, now)]_vars

\* A Logout of web has succeeded while the user holds an enabled row for
\* test, and a token for test validates under test.
C23_Witness ==
  \E p \in Procs :
    /\ rq[p].pc = "done" /\ rq[p].op = "Logout" /\ rq[p].err = NoErr
    /\ rq[p].email = "a@x" /\ rq[p].appCode = "web"
    /\ \E r \in RowsOf("a@x", "web") : ~r.is_enabled
    /\ \E r \in RowsOf("a@x", "test") : r.is_enabled
    /\ \E t \in TokenInputs :
         /\ t.app_code = App("test").app.Code
         /\ ValidateToken(users, userApps, t, "test", now)
            = [email |-> "a@x", err |-> NoErr]

IssuerSecrets(token) == {a.secret : a \in {b \in apps : b.name = token.app_code}}

BusinessErrors ==
  {"auth.ErrInvalidCredentials", "auth.ErrUserAppNotEnabled", "auth.ErrAppNotFound",
   "storage.ErrUserExists"}

\* C25: when a store call of an engine operation fails because the caller's
\* context is cancelled or past its deadline, the operation returns at that
\* step, with the context's error in its error, with none of
\* InvalidCredentials, AccessDenied, AppNotFound and CredentialConflict in it
\* and with no value, and it has written nothing; no store call follows.
C25_ContextErrorSurfaces ==
  [][\A p \in Procs :
       (rq[p].fault = None /\ rq'[p].fault \in ContextErrors)
       => /\ rq[p].pc \notin {"idle", "done"}
          /\ rq'[p].pc = "done"
          /\ Is(rq'[p].err, rq'[p].fault)
          /\ rq'[p].err \cap BusinessErrors = {}
          /\ rq'[p].val = Zero(rq[p].op)
          /\ users' = users /\ userApps' = userApps /\ issued' = issued]_vars

\* A Logout whose context was over at its second step has returned the
\* context's error.
C25_Witness ==
  \E p \in Procs :
    /\ rq[p].pc = "done" /\ rq[p].op = "Logout" /\ rq[p].uid # 0
    /\ rq[p].fault \in ContextErrors
    /\ Is(rq[p].err, rq[p].fault)
    /\ rq[p].val = FALSE

\* The order of the steps of Auth.Login.
LoginRank(pc) ==
  CASE pc = "login_user" -> 1
    [] pc = "login_app" -> 2
    [] pc = "login_userapp" -> 3
    [] pc = "login_save" -> 4
    [] pc = "login_token" -> 5
    [] pc = "done" -> 6
    [] OTHER -> 0

\* C26: a Login one of whose store calls fails with an error that is none of
\* user not found, app not found and the uniqueness conflict of the insert
\* returns at that step, is answered with Internal and gets no token, and no
\* token is issued; the steps of a Login follow one another in the order of
\* the code, so that no store call is made twice.
C26_LoginStoreErrorIsInternal ==
  [][\A p \in Procs :
       rq[p].op = "Login" =>
         /\ (/\ rq[p].pc # "done" /\ rq'[p].pc = "done"
             /\ \/ rq'[p].fault # None
                \/ Is(rq'[p].err, "sql.ErrArguments"))
            => /\ LoginResponse(rq'[p].val, rq'[p].err)
                  = Status("Internal", "failed to login")
               /\ rq'[p].val = None
               /\ issued' = issued
         /\ (rq[p].fault = None /\ rq'[p].fault # None) => rq'[p].pc = "done"
         /\ rq'[p].pc # rq[p].pc
            => \/ rq'[p].pc = "idle"
               \/ LoginRank(rq'[p].pc) > LoginRank(rq[p].pc)]_vars

\* A Login has found the user and the app, its lookup of the user_app row
\* has failed in the driver, and the answer is Internal.
C26_Witness ==
  \E p \in Procs :
    /\ rq[p].pc = "done" /\ rq[p].op = "Login" /\ rq[p].uid # 0
    /\ rq[p].fault = "sqlite3.Error"
    /\ Response(p) = Status("Internal", "failed to login")
    /\ rq[p].val = None

\* C27: when the interceptor was built without a backend, every Login
\* request goes from the interceptor straight to the handler: none is
\* rejected with ResourceExhausted, none is counted, and no key is written.
C27_NoBackendNoThrottle ==
  [][rateLimitBackend = "nil" =>
       /\ \A p \in Procs :
            /\ (rq[p].pc = "throttle_incr" /\ rq'[p].pc # "throttle_incr")
               => rq'[p].pc = "login_user"
            /\ rq'[p].pc \notin {"throttle_expire", "throttle_limit", "rejected"}
            /\ rq'[p].attempts = 0
       /\ redis' = redis]_vars

\* Without a backend more Login requests than the limit have reached the
\* handler at once and have been answered by it.
C27_Witness ==
  /\ rateLimitBackend = "nil"
  /\ NumProcs > LoginLimit
  /\ \A p \in Procs : /\ rq[p].pc = "done" /\ rq[p].op = "Login"
                       /\ rq[p].uid # 0

\* C28: a ValidateToken call on a token that Login has returned, made with
\* the app code of that Login before the token's expiry, with no Logout and
\* no revoke of the pair since the Login, succeeds and returns the email that
\* was passed to Login.
C28_LoginValidateRoundTrip ==
  \A p \in Procs :
    (/\ rq[p].pc = "done" /\ rq[p].op = "Validate"
     /\ rq[p].token \in issued
     /\ AppExists(rq[p].appCode)
     /\ App(rq[p].appCode).app.Code = rq[p].token.app_code
     /\ now < ExpTime(rq[p].token.exp)
     /\ ~rq[p].after /\ ~rq[p].afterRevoke)
    => /\ rq[p].err = NoErr
       /\ rq[p].val = rq[p].token.email

\* C29: the expiry of the key of an email is set only by the Expire call of
\* the attempt whose Incr returned 1, to the instant of that call plus the
\* window, on a key that had no expiry; no other attempt calls Expire, and
\* apart from that the expiry changes only when the key runs out.
C29_WindowFixedByFirstAttempt ==
  [][/\ \A e \in Emails :
          redis'[e].ttl # redis[e].ttl
          => \/ redis'[e] = NoKey
             \/ /\ redis[e].ttl = NoTTL
                /\ redis'[e].ttl = now + LoginWindow
                /\ \E p \in Procs :
                     /\ rq[p].pc = "throttle_expire" /\ rq'[p].pc = "throttle_limit"
                     /\ rq[p].email = e /\ rq[p].attempts = 1
     /\ \A p \in Procs : rq'[p].pc = "throttle_expire" => rq'[p].attempts = 1]_vars

\* A second attempt has been counted in a window that is still open, and
\* the expiry of the key is the one the first attempt set.
C29_Witness ==
  /\ redis["a@x"].n >= 2
  /\ redis["a@x"].ttl = windowStart["a@x"] + LoginWindow
  /\ windowStart["a@x"] < now /\ now < redis["a@x"].ttl
  /\ \E p \in CountedNow("a@x") : rq[p].attempts = 2 /\ rq[p].pc = "throttle_limit"

\* C30: no step of a Login attempt for one email changes the key of another
\* email, its counter or its expiry, or the start of its window; an attempt
\* is counted on the key of its own email alone, and it is rejected only
\* when that count is above the limit.
C30_CountersPerEmail ==
  [][\A p \in Procs :
       rq'[p].pc # rq[p].pc =>
         LET e == IF rq[p].pc = "idle" THEN rq'[p].email ELSE rq[p].email
         IN /\ \A b \in Emails \ {e} :
                 /\ redis'[b] = redis[b]
                 /\ windowStart'[b] = windowStart[b]
            /\ (/\ rq[p].pc = "throttle_incr"
                /\ rq'[p].pc \in {"throttle_expire", "throttle_limit"})
               => rq'[p].attempts = redis[e].n + 1
            /\ rq'[p].pc = "rejected" => rq[p].attempts > LoginLimit]_vars

\* The attempts for a@x have used up its limit and one of them is rejected,
\* while an attempt for b@x counted in the same window is admitted as the
\* first of its own key.
C30_Witness ==
  \E p \in Procs, q \in Procs :
    /\ rq[p].email = "a@x" /\ rq[p].pc = "rejected"
    /\ redis["a@x"].n > LoginLimit
    /\ rq[q].email = "b@x" /\ rq[q].attempts = 1 /\ rq[q].pc = "done"
    /\ redis["b@x"].n = 1
    /\ Response(q) # TooManyAttempts

\* C31: no step of any operation removes a row of user_app: every row is
\* there after the step with the id, the user and the app it had, so that a
\* Logout or an AccessControl on an existing row changes nothing of it but
\* its enabled flag.
C31_RowsNeverDeleted ==
  [][\A r \in userApps :
       \E n \in userApps' :
         /\ n.id = r.id /\ n.user_id = r.user_id /\ n.app_id = r.app_id
         /\ \A m \in userApps' :
              (m.user_id = r.user_id /\ m.app_id = r.app_id) => m = n]_vars

\* After a Logout of the pair an AccessControl revoke of the same pair has
\* succeeded, and the row of the pair is still there, disabled.
C31_Witness ==
  \E p \in Procs :
    /\ rq[p].pc = "done" /\ rq[p].op = "AccessControl" /\ rq[p].err = NoErr
    /\ ~rq[p].isEnabled
    /\ <<rq[p].email, rq[p].appCode>> \in loggedOut
    /\ \E r \in RowsOf(rq[p].email, rq[p].appCode) : ~r.is_enabled

\* C32: no step of any operation changes or removes a stored user: its id,
\* email and password digest are after the step what they were.  A Register
\* that fails with the conflict writes nothing, and after it the stored
\* digest verifies the password the user registered with and does not
\* verify the password given to the failed Register, when that is another
\* one; and the password check of a Login is decided by the stored digest:
\* it fails with InvalidCredentials exactly when the digest does not verify
\* the password.
C32_UsersImmutable ==
  [][/\ \A u \in users : u \in users'
     /\ \A p \in Procs :
          (/\ rq[p].pc = "register" /\ rq'[p].pc = "done"
           /\ Is(rq'[p].err, "storage.ErrUserExists"))
          => /\ users' = users
             /\ \A u \in users' :
                  u.email = rq[p].email
                  => /\ CompareHashAndPassword(u.pass_hash,
                                               RegisteredPassword(rq[p].email))
                     /\ (rq[p].password # RegisteredPassword(rq[p].email))
                        => ~CompareHashAndPassword(u.pass_hash, rq[p].password)
     /\ \A p \in Procs :
          (/\ rq[p].op = "Login" /\ Registered(rq[p].email)
           /\ rq[p].pc # "done" /\ rq'[p].pc = "done" /\ rq'[p].fault = None)
          => (Is(rq'[p].err, "auth.ErrInvalidCredentials")
              = ~CorrectCredentials(rq[p].email, rq[p].password))
     /\ FirstUser \in users'
     /\ RegisteredPassword("a@x") = "password1"]_vars

\* A Register with the email of the first user and another password, one of
\* 72 bytes, has failed with the conflict; the stored user is as it was and
\* its digest verifies the first password and not that one.
C32_Witness ==
  \E p \in Procs :
    /\ rq[p].pc = "done" /\ rq[p].op = "Register"
    /\ rq[p].email = "a@x" /\ rq[p].password = Password72
    /\ Is(rq[p].err, "storage.ErrUserExists")
    /\ FirstUser \in users
    /\ CorrectCredentials("a@x", "password1")
    /\ ~CorrectCredentials("a@x", Password72)

\* C33: an AccessControl call with the email of no user or with the code of
\* no app returns from its lookups with an error and the empty string in
\* place of an app code, and no step of it creates or changes a row of
\* user_app.
C33_AccessControlUnknownPair ==
  [][\A p \in Procs :
       (/\ rq[p].op = "AccessControl"
        /\ ~Registered(rq[p].email) \/ ~AppExists(rq[p].appCode)
        /\ rq'[p].pc # rq[p].pc)
       => /\ userApps' = userApps
          /\ rq[p].pc \in {"access_user", "access_app", "done"}
          /\ (rq[p].pc = "access_user" /\ Registered(rq[p].email))
             => rq'[p].pc = "access_app"
          /\ (\/ rq[p].pc = "access_user" /\ ~Registered(rq[p].email)
              \/ rq[p].pc = "access_app")
             => /\ rq'[p].pc = "done"
                /\ rq'[p].err # NoErr
                /\ rq'[p].val = ""]_vars

\* An AccessControl grant for a registered user and the code of no app has
\* returned the error of the app lookup.
C33_Witness ==
  \E p \in Procs :
    /\ rq[p].pc = "done" /\ rq[p].op = "AccessControl"
    /\ Registered(rq[p].email) /\ ~AppExists(rq[p].appCode)
    /\ rq[p].isEnabled
    /\ Is(rq[p].err, "storage.ErrAppNotFound")
    /\ rq[p].val = ""
    /\ RowsOf(rq[p].email, rq[p].appCode) = {}

\* C34: a Login that is the first to return a token for its user and app,
\* whatever Logout and AccessControl calls for the pair run beside it, does
\* not return the token at a moment at which the row of the pair is there
\* with enabled = false.
C34_NoTokenWhileDisabled ==
  \A p \in Procs :
    (/\ rq[p].pc = "done" /\ rq[p].op = "Login" /\ rq[p].err = NoErr
     /\ rq[p].firstToken)
    => rq[p].rowAtReturn # "disabled"

\* C35: an AccessControl for a registered user and an existing app, begun
\* while the pair had no row and run beside another AccessControl or a Login
\* of the same pair that also began without a row, returns the app code
\* without error, and once every such call is over the pair has exactly one
\* row, whose flag is the value one of the AccessControl calls asked for.
C35_ConcurrentAccessControl ==
  \A p \in Procs :
    (/\ rq[p].pc = "done" /\ rq[p].op = "AccessControl" /\ rq[p].first
     /\ Registered(rq[p].email) /\ AppExists(rq[p].appCode)
     /\ \E q \in Procs \ {p} :
          /\ rq[q].op \in {"AccessControl", "Login"} /\ rq[q].pc # "idle"
          /\ rq[q].first
          /\ rq[q].email = rq[p].email /\ rq[q].appCode = rq[p].appCode)
    => /\ rq[p].err = NoErr
       /\ rq[p].val = rq[p].appCode
       /\ (\A q \in Procs : rq[q].pc \in {"idle", "done"})
            => \E r \in userApps :
                 /\ RowsOf(rq[p].email, rq[p].appCode) = {r}
                 /\ \E q \in Procs :
                      /\ rq[q].pc = "done" /\ rq[q].op = "AccessControl"
                      /\ rq[q].email = rq[p].email /\ rq[q].appCode = rq[p].appCode
                      /\ r.is_enabled = rq[q].isEnabled

\* C36: a step that turns the flag of an existing row from false to true is
\* the update of an AccessControl(enabled = true) of the row's pair that ends
\* without error; and no step of a Login changes a row that was there.
C36_OnlyGrantEnables ==
  [][(\A r \in userApps :
        (~r.is_enabled /\ [r EXCEPT !.is_enabled = TRUE] \in userApps')
        => \E p \in Procs :
             /\ rq[p].op = "AccessControl" /\ rq[p].isEnabled
             /\ rq[p].pc = "access_update"
             /\ rq'[p].pc = "done" /\ rq'[p].err = NoErr
             /\ r \in RowsOf(rq[p].email, rq[p].appCode))
     /\ (\A q \in Procs :
          (rq[q].op = "Login" /\ rq'[q].pc # rq[q].pc)
          => \A r \in userApps : r \in userApps')]_vars

\* An AccessControl(enabled = true) has succeeded on the row that a Logout,
\* finished in the other slot, had disabled.
C36_Witness ==
  \E p \in Procs, q \in Procs :
    /\ rq[p].pc = "done" /\ rq[p].op = "AccessControl" /\ rq[p].isEnabled
    /\ rq[p].err = NoErr /\ ~rq[p].first
    /\ rq[q].pc = "done" /\ rq[q].op = "Logout" /\ rq[q].err = NoErr
    /\ rq[q].email = rq[p].email /\ rq[q].appCode = rq[p].appCode
    /\ \E r \in RowsOf(rq[p].email, rq[p].appCode) : r.is_enabled

\* C37: a ValidateToken of a token that was issued before a Logout of its
\* pair, begun after an AccessControl grant for the pair has succeeded since
\* that Logout, and over before the token's expiry, returns the token's email
\* without error.
C37_GrantRevivesToken ==
  \A p \in Procs :
    (/\ rq[p].pc = "done" /\ rq[p].op = "Validate" /\ rq[p].regranted
     /\ now < ExpTime(rq[p].token.exp))
    => /\ rq[p].err = NoErr
       /\ rq[p].val = rq[p].token.email

\* Such a ValidateToken has returned.
C37_Witness ==
  \E p \in Procs :
    /\ rq[p].pc = "done" /\ rq[p].op = "Validate" /\ rq[p].regranted
    /\ now < ExpTime(rq[p].token.exp)
    /\ rq[p].token \in issued
    /\ rq[p].err = NoErr

\* Logins with the email of the registered user or with no email at all,
\* behind an interceptor built with the Redis backend.
InitFailOpen ==
  /\ InitThrottle
  /\ rateLimitBackend = "redis"

NextFailOpen ==
  /\ \/ TickThrottle
     \/ \E p \in Procs, e \in {"", "a@x"} : StartThrottledLogin(p, e, "password1", "web")
     \/ \E p \in Procs : ThrottleEmptyEmail(p)
     \/ \E p \in Procs : ThrottleIncr(p)
     \/ \E p \in Procs : ThrottleExpire(p)
     \/ \E p \in Procs : ThrottleLimit(p)
     \/ \E p \in Procs : ReturnRejected(p)
     \/ \E p \in Procs : LoginStep(p)
  /\ UNCHANGED <<apps, rateLimitBackend>>

SpecFailOpen == InitFailOpen /\ [][NextFailOpen]_vars

\* C38: the step in which a Login leaves the interceptor's Incr position
\* either without an email or with an Incr that has failed (no attempt
\* number) hands the request to the handler and does not reject it; the
\* request without an email leaves every counter as it was.
C38_ThrottleFailsOpen ==
  [][\A p \in Procs :
       (/\ rq[p].pc = "throttle_incr" /\ rq'[p].pc # "throttle_incr"
        /\ rq[p].email = "" \/ rq'[p].attempts = 0)
       => /\ rq'[p].pc = "login_user"
          /\ rq[p].email = "" => redis' = redis]_vars

\* A Login without an email has been answered by the handler, and a Login
\* whose Incr failed has been answered by the handler with a token.
C38_Witness ==
  \E p \in Procs, q \in Procs :
    /\ rq[p].pc = "done" /\ rq[p].op = "Login" /\ rq[p].email = ""
    /\ Response(p) = Status("InvalidArgument", "email is required")
    /\ rq[q].pc = "done" /\ rq[q].op = "Login" /\ rq[q].email = "a@x"
    /\ rq[q].attempts = 0 /\ rq[q].err = NoErr
    /\ redis["a@x"].n = 0

\* C39: a finished AllowAccess, GrantAccess or RevokeAccess whose engine call
\* returned an error is answered with an error status, and one that is
\* answered with success has left a row for its pair with the flag it asked
\* for.
C39_AccessErrorsReachClient ==
  \A p \in Procs :
    (rq[p].pc = "done" /\ rq[p].op = "AccessControl")
    => /\ rq[p].err # NoErr => Response(p) # OK(rq[p].val)
       /\ Response(p) = OK(rq[p].val)
            => \E r \in RowsOf(rq[p].email, rq[p].appCode) :
                 r.is_enabled = rq[p].isEnabled

====
